---- MODULE Spec2Model ----
(***************************************************************************)
(* A model of the nexusrpc handler dispatch core: Handler construction     *)
(* from user service handlers (BaseHandler.__init__), request routing      *)
(* (_get_service_handler, _get_operation_handler) and the four entry       *)
(* points of Handler and SyncioHandler, run inline or on the executor.     *)
(***************************************************************************)
EXTENDS Integers, Sequences, FiniteSets, TLC

VARIABLES
    phase,                  \* "new" | "ready" | "failed": where construction stands
    dispatcher,             \* "Handler" | "SyncioHandler": the class being constructed
    user_service_handlers,  \* constructor argument (dropped once __init__ returns)
    executor,               \* TRUE iff an executor was supplied
    service_handlers,       \* BaseHandler.service_handlers: name -> ServiceHandler
    ctor_error,             \* the exception __init__ raised, or NoError
    callers,                \* the request slots the transport layer uses
    factory_calls,          \* how many operation handler factories have been called
    task_cancellation,      \* per slot: the OperationTaskCancellation of its start context
    cancelling,             \* per slot: 0 before cancel() is called on its token, 1 during, 2 after
    cancel_point,           \* per slot: what the slot's request was doing when cancel() was first called
    chain,                  \* the configured interceptors, their counters and the call passing through them
    failure,                \* the Failure (HandlerError or OperationError) last constructed, with its arguments
    decorated,              \* the last @service_handler(service=D) decoration: handler class, definition, error
    defined,                \* the last class given to @service: its parent's body, its own body, the outcome
    reqs                    \* per slot: the request being served and how far it got

vars == <<phase, dispatcher, user_service_handlers, executor, service_handlers,
          ctor_error, callers, factory_calls, task_cancellation, cancelling,
          cancel_point, chain, failure, decorated, defined,
                   reqs>>

-----------------------------------------------------------------------------
(* Bounds and universes *)

MaxServiceHandlers == 3

\* how many requests pass through the interceptors of one Handler
MaxCalls == 2

Slots == {"r1", "r2"}
Methods == {"start", "cancel", "fetch_info", "fetch_result"}
ServiceNames == {"a", "b"}
OperationNames == {"op", "pub", "meth"}
Values == {"v1", "v2"}
Tokens == {"t1", "t2"}
UserErrors == {"ValueError", "HandlerError.NOT_FOUND"}
None == "None"

\* dict iteration order of operation names (insertion order of the definitions below)
KeyOrder == <<"op", "pub", "meth", "cancellable_async", "cancellable_sync">>

RECURSIVE SeqsUpTo(_, _)
SeqsUpTo(S, n) ==
    IF n = 0 THEN {<<>>}
    ELSE LET shorter == SeqsUpTo(S, n - 1)
         IN  shorter \cup {Append(s, x) : s \in {t \in shorter : Len(t) = n - 1}, x \in S}

EmptyMap == [k \in {} |-> None]

-----------------------------------------------------------------------------
(* Operation handlers *)

\* An OperationHandler instance: which of its four methods are `async def`, and
\* whether it is of the synchronously-completing family.
OpHandler(cls, asyncMethods, sync) ==
    [cls |-> cls, isasync |-> [m \in Methods |-> m \in asyncMethods], sync |-> sync]

\* tests/handler/test_async_operation.py: every method `async def`
AsyncOperationHandler == OpHandler("AsyncOperationHandler", Methods, FALSE)

\* an OperationHandler subclass written with plain `def` methods
BlockingOperationHandler == OpHandler("BlockingOperationHandler", {}, FALSE)

\* OperationHandler subclasses with exactly one plain `def` method
BlockingStartHandler == OpHandler("BlockingStartHandler", Methods \ {"start"}, FALSE)
BlockingCancelHandler == OpHandler("BlockingCancelHandler", Methods \ {"cancel"}, FALSE)

\* sync_operation_handler.factory on an `async def` start method: start and cancel
\* are replaced by async wrappers, fetch_info and fetch_result stay the plain `def`
\* methods of SyncOperationHandler.
SyncOperationHandlerAsyncDef ==
    OpHandler("SyncOperationHandler[async def]", {"start", "cancel"}, TRUE)

\* sync_operation_handler.factory on a plain `def` start method, and the syncio
\* SyncOperationHandler built from a callable: every method a plain `def`.
SyncOperationHandlerDef == OpHandler("SyncOperationHandler[def]", {}, TRUE)

\* tests/handler/test_cancellation.py: start waits on ctx.task_cancellation
CancellableAsyncOperationHandler ==
    OpHandler("CancellableAsyncOperationHandler", {"start", "cancel"}, FALSE)

\* MyService.cancellable_sync: an `async def` under @sync_operation
CancellableSyncOperation == OpHandler("sync_operation[cancellable_sync]", {"start", "cancel"}, TRUE)

WaitsUntilCancelled(op_handler) ==
    op_handler.cls \in {CancellableAsyncOperationHandler.cls, CancellableSyncOperation.cls}

is_async_callable(op_handler, method) == op_handler.isasync[method]

-----------------------------------------------------------------------------
(* Service definitions and the elements of user_service_handlers *)

Operation(name, method_name, input_type) ==
    [name |-> name, method_name |-> method_name, input_type |-> input_type]

ServiceDefinition(name, operations) == [name |-> name, operations |-> operations]

NoDefinition == ServiceDefinition(None, EmptyMap)

\* An element of user_service_handlers.
\*   form "instance":       a user object; `service` is what get_service_definition
\*                          finds on its class, `handlers` its operation handler
\*                          factories keyed by method name
\*   form "ServiceHandler": a ServiceHandler built by the user; `handlers` is its
\*                          operation_handlers, keyed by operation name
\*   form "class":          a class passed where an instance is expected
Element(form, service, handlers) ==
    [form |-> form, service |-> service, handlers |-> handlers]

OneOp == ("op" :> Operation("op", "op", "int"))
TwoOps == ("op" :> Operation("op", "op", "int")) @@ ("pub" :> Operation("pub", "meth", "str"))
UnboundOp == ("op" :> Operation("op", None, "int"))
\* method "op" published as "meth", method "meth" published as "pub"
SwappedOps == ("meth" :> Operation("meth", "op", "int")) @@ ("pub" :> Operation("pub", "meth", "str"))

Instance(name, h) == Element("instance", ServiceDefinition(name, OneOp), ("op" :> h))

UserServiceHandlers ==
    { Instance("a", AsyncOperationHandler),
      Instance("a", BlockingOperationHandler),
      Instance("a", BlockingStartHandler),
      Instance("a", BlockingCancelHandler),
      Instance("a", SyncOperationHandlerAsyncDef),
      Instance("a", SyncOperationHandlerDef),
      \* operation "pub" implemented by method "meth"
      Element("instance", ServiceDefinition("b", TwoOps),
              ("op" :> AsyncOperationHandler) @@ ("meth" :> SyncOperationHandlerAsyncDef)),
      Element("instance", ServiceDefinition("b", SwappedOps),
              ("op" :> AsyncOperationHandler) @@ ("meth" :> SyncOperationHandlerAsyncDef)),
      \* a service without operations
      Element("instance", ServiceDefinition("b", EmptyMap), EmptyMap),
      \* the class has no factory for method "op"
      Element("instance", ServiceDefinition("b", OneOp), EmptyMap),
      \* the definition's operation has no method_name
      Element("instance", ServiceDefinition("a", UnboundOp), ("op" :> AsyncOperationHandler)),
      \* ServiceHandler objects registered directly
      Element("ServiceHandler", ServiceDefinition("a", OneOp), ("op" :> AsyncOperationHandler)),
      Element("ServiceHandler", ServiceDefinition("b", OneOp), EmptyMap),
      \* not decorated with @service_handler
      Element("instance", NoDefinition, EmptyMap),
      Element("class", ServiceDefinition("a", OneOp), ("op" :> AsyncOperationHandler)) }

-----------------------------------------------------------------------------
(* Construction *)

NoError == [type |-> None, reason |-> None, service |-> None, operation |-> None,
            method |-> None]

CtorError(type, reason, service, operation, method) ==
    [type |-> type, reason |-> reason, service |-> service, operation |-> operation,
     method |-> method]

ServiceHandler(service, operation_handlers) ==
    [service |-> service, operation_handlers |-> operation_handlers]

\* keys of a dict in iteration order
Keys(d) == SelectSeq(KeyOrder, LAMBDA k : k \in DOMAIN d)

collect_operation_handler_factories_by_method_name(user_instance) ==
    user_instance.handlers

Built(sh) == [ok |-> TRUE, value |-> sh, error |-> NoError]
Raised(e) == [ok |-> FALSE, value |-> ServiceHandler(NoDefinition, EmptyMap), error |-> e]

from_user_instance_KeyedByMethodName(user_instance) ==
    LET service == user_instance.service
        factories_by_method_name ==
            collect_operation_handler_factories_by_method_name(user_instance)
        bound == {n \in DOMAIN service.operations :
                    service.operations[n].method_name # None}
        methods == {service.operations[n].method_name : n \in bound}
    IN  IF service = NoDefinition
        THEN Raised(CtorError("RuntimeError", "no_service_definition", None, None, None))
        ELSE IF ~(methods \subseteq DOMAIN factories_by_method_name)
        THEN Raised(CtorError("KeyError", "no_factory", None, None,
                              CHOOSE m \in methods : m \notin DOMAIN factories_by_method_name))
        ELSE Built(ServiceHandler(service, [m \in methods |-> factories_by_method_name[m]]))

\* ServiceHandler.from_user_instance
from_user_instance(user_instance) ==
    LET service == user_instance.service
        factories_by_method_name ==
            collect_operation_handler_factories_by_method_name(user_instance)
        bound == {n \in DOMAIN service.operations :
                    service.operations[n].method_name # None}
        missing == SelectSeq(Keys(service.operations),
                     LAMBDA n : n \in bound /\
                       service.operations[n].method_name \notin DOMAIN factories_by_method_name)
    IN  IF service = NoDefinition
        THEN Raised(CtorError("RuntimeError", "no_service_definition", None, None, None))
        ELSE IF Len(missing) > 0
        THEN Raised(CtorError("KeyError", "no_factory", None, None,
                              service.operations[missing[1]].method_name))
        ELSE Built(ServiceHandler(service,
                 [n \in bound |-> factories_by_method_name[service.operations[n].method_name]]))

\* The first (operation, method) the no-executor check of __init__ rejects, or <<>>.
FirstBlocking(sh) ==
    LET bad == SelectSeq(Keys(sh.operation_handlers),
                 LAMBDA n : ~is_async_callable(sh.operation_handlers[n], "start")
                         \/ ~is_async_callable(sh.operation_handlers[n], "cancel"))
    IN  IF Len(bad) = 0 THEN <<>>
        ELSE <<bad[1], IF ~is_async_callable(sh.operation_handlers[bad[1]], "start")
                       THEN "start" ELSE "cancel">>

already_registered_Never(registry, name) == FALSE

\* `sh.service.name in self.service_handlers`
already_registered(registry, name) == name \in DOMAIN registry

Constructed(registry) == [ok |-> TRUE, service_handlers |-> registry, error |-> NoError]
Rejected(registry, e) == [ok |-> FALSE, service_handlers |-> registry, error |-> e]

\* The loop of BaseHandler.__init__ from element i on.
RECURSIVE RegisterFrom(_, _, _, _)
RegisterFrom(handlers, i, has_executor, registry) ==
    IF i > Len(handlers) THEN Constructed(registry)
    ELSE
      LET el == handlers[i]
          built == IF el.form = "ServiceHandler"
                   THEN Built(ServiceHandler(el.service, el.handlers))
                   ELSE from_user_instance(el)
          sh == built.value
          blocking == FirstBlocking(sh)
      IN  IF el.form = "class"
          THEN Rejected(registry, CtorError("TypeError", "class", None, None, None))
          ELSE IF ~built.ok THEN Rejected(registry, built.error)
          ELSE IF already_registered(registry, sh.service.name)
          THEN Rejected(registry,
                 CtorError("RuntimeError", "already_registered", sh.service.name, None, None))
          ELSE IF ~has_executor /\ blocking # <<>>
          THEN Rejected(registry,
                 CtorError("RuntimeError", "not_async", sh.service.name,
                           blocking[1], blocking[2]))
          ELSE RegisterFrom(handlers, i + 1, has_executor,
                            (sh.service.name :> sh) @@ registry)

BaseHandler_init(handlers, has_executor) == RegisterFrom(handlers, 1, has_executor, EmptyMap)

all_operation_handlers_are_sync_OnlyStart(registry) ==
    \A s \in DOMAIN registry :
        \A n \in DOMAIN registry[s].operation_handlers :
            ~is_async_callable(registry[s].operation_handlers[n], "start")

\* nexusrpc.syncio.handler.Handler._validate_all_operation_handlers_are_sync: no
\* registered operation handler has an `async def` start, cancel, fetch_info or
\* fetch_result
all_operation_handlers_are_sync(registry) ==
    \A s \in DOMAIN registry :
        \A n \in DOMAIN registry[s].operation_handlers :
            \A method \in Methods :
                ~is_async_callable(registry[s].operation_handlers[n], method)

\* nexusrpc.syncio.handler.Handler.__init__: the base constructor, then the check that
\* every operation handler is sync, then the check that an executor was given
syncio_Handler_init(handlers, has_executor) ==
    LET made == BaseHandler_init(handlers, has_executor)
    IN  IF ~made.ok THEN made
        ELSE IF ~all_operation_handlers_are_sync(made.service_handlers)
        THEN Rejected(made.service_handlers,
                      CtorError("RuntimeError", "async_def", None, None, None))
        ELSE IF ~has_executor
        THEN Rejected(made.service_handlers,
                      CtorError("RuntimeError", "no_executor", None, None, None))
        ELSE made

\* the constructor of the dispatcher class:
\*   "Handler"        nexusrpc.handler.Handler
\*   "SyncioHandler"  nexusrpc.handler._core.SyncioHandler
\*   "syncio.Handler" nexusrpc.syncio.handler.Handler
Handler_init(kind, handlers, has_executor) ==
    IF kind = "syncio.Handler" THEN syncio_Handler_init(handlers, has_executor)
    ELSE BaseHandler_init(handlers, has_executor)

\* how many factories from_user_instance calls for one element: one per operation
\* with a method_name, in dict order, until a method has no factory
FactoryCallsFor(el) ==
    IF el.form # "instance" \/ el.service = NoDefinition THEN 0
    ELSE LET factories == collect_operation_handler_factories_by_method_name(el)
             bound == SelectSeq(Keys(el.service.operations),
                        LAMBDA n : el.service.operations[n].method_name # None)
             found(k) == el.service.operations[bound[k]].method_name \in DOMAIN factories
         IN  Cardinality({k \in 1..Len(bound) : \A j \in 1..k : found(j)})

\* the factory calls made by BaseHandler.__init__, which stops at the first element
\* it rejects
RECURSIVE FactoryCallsFrom(_, _, _)
FactoryCallsFrom(handlers, i, has_executor) ==
    IF i > Len(handlers) THEN 0
    ELSE IF i > 1 /\ ~BaseHandler_init(SubSeq(handlers, 1, i - 1), has_executor).ok THEN 0
    ELSE FactoryCallsFor(handlers[i]) + FactoryCallsFrom(handlers, i + 1, has_executor)

-----------------------------------------------------------------------------------------------------------------------------------------------------
(* Outcomes: what a call returns or raises *)

\* kind: "Sync" | "Async" | "Info" | "Value" | "None" | "Awaitable" | "Raise"
\* val:  the value, token or state carried, or the exception's type
\* by:   who produced it: "handler" (user code), "dispatcher", "serializer"
\* detail: the names an error message lists
Outcome(kind, val, by) == [kind |-> kind, val |-> val, by |-> by, detail |-> <<>>]

NoOutcome == Outcome(None, None, None)

StartOperationResultSync(value) == Outcome("Sync", value, "handler")
StartOperationResultAsync(token) == Outcome("Async", token, "handler")
OperationInfo(state) == Outcome("Info", state, "handler")
UserRaise(e) == Outcome("Raise", e, "handler")

sorted_InsertionOrder(names) == SelectSeq(KeyOrder, LAMBDA k : k \in names)

\* sorted(...) of a set of operation names
AlphabeticalOrder == <<"cancellable_async", "cancellable_sync", "meth", "op", "pub">>
sorted(names) == SelectSeq(AlphabeticalOrder, LAMBDA k : k \in names)

NotFound_WrongType(listed) ==
    [kind |-> "Raise", val |-> "HandlerError.INTERNAL", by |-> "dispatcher",
     detail |-> listed]

NotFound(listed) ==
    [kind |-> "Raise", val |-> "HandlerError.NOT_FOUND", by |-> "dispatcher",
     detail |-> listed]

NoExecutorError(method) == Outcome("Raise", "RuntimeError.no_executor." \o method, "dispatcher")
AsyncInSyncError(method) == Outcome("Raise", "RuntimeError.async_def." \o method, "dispatcher")
ReturnedAwaitableError(method) ==
    Outcome("Raise", "RuntimeError.returned_awaitable." \o method, "dispatcher")
WaitNotSupported == Outcome("Raise", "NotImplementedError.wait", "dispatcher")
SyncioNotImplemented == Outcome("Raise", "NotImplementedError", "dispatcher")
DeserializeError == Outcome("Raise", "DeserializeError", "serializer")

\* SyncOperationHandler.fetch_info / fetch_result / cancel
RespondedSynchronously(method) ==
    Outcome("Raise", "NotImplementedError.responded_synchronously." \o method, "handler")

-----------------------------------------------------------------------------
(* What user code may do when one of its methods is called *)

\* what the user's start function does: return a value, or raise
UserFunctionOutcomes ==
    {Outcome("Value", v, "handler") : v \in Values \cup Tokens} \cup
    {UserRaise(e) : e \in UserErrors}

SyncOperationHandler_start_Unwrapped(user_outcome) ==
    IF user_outcome.kind = "Raise" THEN user_outcome
    ELSE IF user_outcome.val \in Tokens THEN Outcome("Async", user_outcome.val, "handler")
    ELSE Outcome("Sync", user_outcome.val, "handler")

\* SyncOperationHandler.start, and the start wrappers of sync_operation_handler.factory
SyncOperationHandler_start(user_outcome) ==
    IF user_outcome.kind = "Raise" THEN user_outcome
    ELSE StartOperationResultSync(user_outcome.val)

\* a call of a handler method: what the wrapped user function did, if the method
\* wraps one (uret), and what the method itself returned or raised (hret)
Call(uret, hret) == [uret |-> uret, hret |-> hret]

\* the methods an OperationHandler subclass written by the user may return or raise
UserMethodOutcomes(method) ==
    {UserRaise(e) : e \in UserErrors} \cup {Outcome("Awaitable", None, "handler")} \cup
         CASE method = "start" ->
                {StartOperationResultSync(v) : v \in Values} \cup
                {StartOperationResultAsync(t) : t \in Tokens} \cup
                {Outcome("None", None, "handler")}
           [] method = "cancel" -> {Outcome("None", None, "handler")}
           [] method = "fetch_info" -> {OperationInfo(st) : st \in {"RUNNING", "SUCCEEDED"}}
           [] method = "fetch_result" -> {Outcome("Value", v, "handler") : v \in Values}

\* the possible calls of `method` on `op_handler`
HandlerCalls(op_handler, method) ==
    IF op_handler.sync
    THEN IF method = "start"
         THEN {Call(u, SyncOperationHandler_start(u)) : u \in UserFunctionOutcomes}
         ELSE {Call(NoOutcome, RespondedSynchronously(method))}
    ELSE {Call(NoOutcome, o) : o \in UserMethodOutcomes(method)}

-----------------------------------------------------------------------------
(* Routing *)

NoHandler == OpHandler(None, {}, FALSE)

Routed(op_handler) == [ok |-> TRUE, op_handler |-> op_handler, error |-> NoOutcome]
Unrouted(error) == [ok |-> FALSE, op_handler |-> NoHandler, error |-> error]

\* ServiceHandler._get_operation_handler
get_operation_handler(service_handler, operation) ==
    IF operation \notin DOMAIN service_handler.service.operations
    THEN Unrouted(NotFound(sorted(DOMAIN service_handler.service.operations)))
    ELSE IF operation \notin DOMAIN service_handler.operation_handlers
    THEN Unrouted(NotFound(sorted(DOMAIN service_handler.operation_handlers)))
    ELSE Routed(service_handler.operation_handlers[operation])

\* BaseHandler._get_service_handler followed by ServiceHandler._get_operation_handler
Route(registry, service_name, operation) ==
    IF service_name \notin DOMAIN registry
    THEN Unrouted(NotFound(<<>>))
    ELSE get_operation_handler(registry[service_name], operation)

RegistryAfterRouting_Evicts(registry, service_name, operation) ==
    IF Route(registry, service_name, operation).ok
    THEN [registry EXCEPT ![service_name].operation_handlers =
            [n \in DOMAIN @ \ {operation} |-> @[n]]]
    ELSE registry

\* What routing leaves in self.service_handlers: `self.service_handlers.get(...)` and
\* `self.operation_handlers.get(...)` only read.
RegistryAfterRouting(registry, service_name, operation) == registry

-----------------------------------------------------------------------------
(* The entry points, up to the point where user code runs *)

IdleRequest ==
    [pc |-> "idle", method |-> None, service |-> None, operation |-> None,
     token |-> None, wait |-> FALSE, input_ok |-> TRUE,
     op_handler |-> NoHandler, where |-> None, invoked |-> 0, consumed |-> 0,
     as_type |-> None, uret |-> NoOutcome, hret |-> NoOutcome, result |-> NoOutcome,
     \* ctx.task_cancellation (the slot whose token it is), and what a handler that
     \* waits on it has seen so far
     task_cancellation |-> None, sleeping |-> FALSE, waited |-> None, details |-> None]

NewRequest(method, service, operation, token, wait, input_ok) ==
    [IdleRequest EXCEPT !.method = method, !.service = service, !.operation = operation,
                        !.token = token, !.wait = wait, !.input_ok = input_ok]

Fail(rq, error) == [rq EXCEPT !.pc = "done", !.result = error]

HandlerAdapter_PrefersExecutor(rq, op_handler, has_executor) ==
    IF has_executor
    THEN [rq EXCEPT !.pc = "submitted", !.where = "executor", !.op_handler = op_handler]
    ELSE IF is_async_callable(op_handler, rq.method)
    THEN [rq EXCEPT !.pc = "in_handler", !.where = "inline", !.invoked = @ + 1,
                    !.op_handler = op_handler]
    ELSE Fail(rq, NoExecutorError(rq.method))

HandlerAdapter_InvokesTwice(rq, op_handler, has_executor) ==
    IF is_async_callable(op_handler, rq.method)
    THEN [rq EXCEPT !.pc = "in_handler", !.where = "inline", !.invoked = @ + 2,
                    !.op_handler = op_handler]
    ELSE IF ~has_executor
    THEN [rq EXCEPT !.pc = "done",
                    !.result = Outcome("Raise", "RuntimeError.no_executor." \o rq.method,
                                       "dispatcher")]
    ELSE [rq EXCEPT !.pc = "submitted", !.where = "executor", !.op_handler = op_handler]

HandlerAdapter_FallsBackInline(rq, op_handler, has_executor) ==
    IF is_async_callable(op_handler, rq.method) \/ ~has_executor
    THEN [rq EXCEPT !.pc = "in_handler", !.where = "inline", !.invoked = @ + 1,
                    !.op_handler = op_handler]
    ELSE [rq EXCEPT !.pc = "submitted", !.where = "executor", !.op_handler = op_handler]

\* Handler: `await op_handler.m(...)` when m is an `async def`, else
\* `await self.executor.submit_to_event_loop(op_handler.m, ...)`
HandlerAdapter(rq, op_handler, has_executor) ==
    IF is_async_callable(op_handler, rq.method)
    THEN [rq EXCEPT !.pc = "in_handler", !.where = "inline", !.invoked = @ + 1,
                    !.op_handler = op_handler]
    ELSE IF ~has_executor THEN Fail(rq, NoExecutorError(rq.method))
    ELSE [rq EXCEPT !.pc = "submitted", !.where = "executor", !.op_handler = op_handler]

\* SyncioHandler and nexusrpc.syncio.handler.Handler:
\* `self.executor.submit(op_handler.m, ...).result()`.  The latter's start_operation
\* has no executor test of its own; its constructor has already required one.
SyncioAdapter(rq, op_handler, has_executor) ==
    IF is_async_callable(op_handler, rq.method) THEN Fail(rq, AsyncInSyncError(rq.method))
    ELSE IF ~has_executor THEN Fail(rq, NoExecutorError(rq.method))
    ELSE [rq EXCEPT !.pc = "submitted", !.where = "executor", !.op_handler = op_handler]

Adapter(kind, rq, op_handler, has_executor) ==
    IF kind = "Handler" THEN HandlerAdapter(rq, op_handler, has_executor)
    ELSE SyncioAdapter(rq, op_handler, has_executor)

\* LazyValue.consume(as_type=op.input_type) / consume_sync
consume(rq, op) == [rq EXCEPT !.consumed = @ + 1, !.as_type = op.input_type]

start_operation_ConsumesFirst(kind, registry, has_executor, rq) ==
    LET route == Route(registry, rq.service, rq.operation)
    IN  IF ~route.ok THEN Fail([rq EXCEPT !.consumed = @ + 1], route.error)
        ELSE LET op == registry[rq.service].service.operations[rq.operation]
                 consumed == consume(rq, op)
             IN  IF ~rq.input_ok THEN Fail(consumed, DeserializeError)
                 ELSE Adapter(kind, consumed, route.op_handler, has_executor)

\* Handler.start_operation and SyncioHandler.start_operation
start_operation(kind, registry, has_executor, rq) ==
    LET route == Route(registry, rq.service, rq.operation)
    IN  IF ~route.ok THEN Fail(rq, route.error)
        ELSE LET op == registry[rq.service].service.operations[rq.operation]
                 consumed == consume(rq, op)
             IN  IF ~rq.input_ok THEN Fail(consumed, DeserializeError)
                 ELSE Adapter(kind, consumed, route.op_handler, has_executor)

\* Handler.cancel_operation and SyncioHandler.cancel_operation
cancel_operation(kind, registry, has_executor, rq) ==
    LET route == Route(registry, rq.service, rq.operation)
    IN  IF ~route.ok THEN Fail(rq, route.error)
        ELSE Adapter(kind, rq, route.op_handler, has_executor)

\* Handler.fetch_operation_info; fetch_operation_info of SyncioHandler and of
\* nexusrpc.syncio.handler.Handler raises NotImplementedError
fetch_operation_info(kind, registry, has_executor, rq) ==
    IF kind # "Handler" THEN Fail(rq, SyncioNotImplemented)
    ELSE LET route == Route(registry, rq.service, rq.operation)
         IN  IF ~route.ok THEN Fail(rq, route.error)
             ELSE HandlerAdapter(rq, route.op_handler, has_executor)

\* Handler.fetch_operation_result; fetch_operation_result of SyncioHandler and of
\* nexusrpc.syncio.handler.Handler raises NotImplementedError.  rq.wait stands for
\* `ctx.wait is not None or ctx.headers.get("request-timeout")`.
fetch_operation_result(kind, registry, has_executor, rq) ==
    IF kind # "Handler" THEN Fail(rq, SyncioNotImplemented)
    ELSE IF rq.wait THEN Fail(rq, WaitNotSupported)
    ELSE LET route == Route(registry, rq.service, rq.operation)
         IN  IF ~route.ok THEN Fail(rq, route.error)
             ELSE HandlerAdapter(rq, route.op_handler, has_executor)

EntryPoint(kind, registry, has_executor, rq) ==
    CASE rq.method = "start" -> start_operation(kind, registry, has_executor, rq)
      [] rq.method = "cancel" -> cancel_operation(kind, registry, has_executor, rq)
      [] rq.method = "fetch_info" -> fetch_operation_info(kind, registry, has_executor, rq)
      [] rq.method = "fetch_result" -> fetch_operation_result(kind, registry, has_executor, rq)

Completion_WrapsInSync(kind, rq, outcome) ==
    IF outcome.kind = "Raise" THEN outcome
    ELSE IF outcome.kind \in {"Sync", "Async"} THEN outcome
    ELSE Outcome("Sync", outcome.val, "dispatcher")

Completion_ExecutorDropsValue(kind, rq, outcome) ==
    IF rq.where = "executor" /\ outcome.kind \in {"Sync", "Async"}
    THEN [outcome EXCEPT !.val = None]
    ELSE outcome

Completion_ConvertsErrors(kind, rq, outcome) ==
    IF outcome.kind = "Raise"
    THEN Outcome("Raise", "HandlerError.INTERNAL", "dispatcher")
    ELSE outcome

\* What the entry point does with what the handler method returned or raised:
\* Handler rejects an awaitable that came back from the executor; everything else,
\* exceptions included, goes to the caller as it is.
Completion(kind, rq, outcome) ==
    IF kind = "Handler" /\ rq.where = "executor" /\ outcome.kind = "Awaitable"
    THEN ReturnedAwaitableError(rq.method)
    ELSE outcome

-----------------------------------------------------------------------------
(* Task cancellation: the token a start context carries *)

\* TestOperationTaskCancellation.cancel supplies this string
CancellationDetails == "test cancellation occurred"

\* the timeouts a caller may pass to wait_until_cancelled
Timeouts == {None, "0", "1"}

\* UncancellableOperationTaskCancellation has no state; TestOperationTaskCancellation
\* has _details, _evt and _lock.
Token(kind, evt, details, locked) ==
    [kind |-> kind, evt |-> evt, details |-> details, locked |-> locked]

UncancellableOperationTaskCancellation == Token("Uncancellable", FALSE, None, FALSE)
TestOperationTaskCancellation == Token("Test", FALSE, None, FALSE)

\* OperationTaskCancellation.is_cancelled
is_cancelled(tok) ==
    IF tok.kind = "Uncancellable" THEN FALSE ELSE tok.evt

\* OperationTaskCancellation.cancellation_details; the test token reads under its
\* lock, so the call returns only while the lock is free
CanReadDetails(tok) == tok.kind = "Uncancellable" \/ ~tok.locked

cancellation_details(tok) ==
    IF tok.kind = "Uncancellable" THEN None ELSE tok.details

wait_until_cancelled_ForeverIsTrue(tok, timeout) ==
    IF tok.kind = "Uncancellable" THEN {timeout = None}
    ELSE IF tok.evt THEN {TRUE}
    ELSE IF timeout = None THEN {}
    ELSE {FALSE}

\* OperationTaskCancellation.wait_until_cancelled(timeout): the values the call can
\* return in the token's present state (none: it keeps blocking).  The test token
\* is `self._evt.wait(timeout)`.
wait_until_cancelled(tok, timeout) ==
    IF tok.kind = "Uncancellable" THEN {FALSE}
    ELSE IF tok.evt THEN {TRUE}
    ELSE IF timeout = None THEN {}
    ELSE {FALSE}

wait_until_cancelled_async_NeverReturns(tok) ==
    IF tok.kind = "Uncancellable" THEN FALSE ELSE tok.evt

\* OperationTaskCancellation.wait_until_cancelled_async: TRUE iff the coroutine can
\* complete in the token's present state.  The default token's body is `pass`; the
\* test token loops `while not self.is_cancelled(): await asyncio.sleep(0.05)`.
wait_until_cancelled_async(tok) ==
    IF tok.kind = "Uncancellable" THEN TRUE ELSE is_cancelled(tok)

cancel_EventFirst(tok, step) ==
    IF step = 1 THEN [tok EXCEPT !.evt = TRUE]
    ELSE [tok EXCEPT !.details = CancellationDetails]

\* TestOperationTaskCancellation.cancel in its two steps, both under `self._lock`:
\* `self._details = "test cancellation occurred"`, then `self._evt.set()`
cancel(tok, step) ==
    IF step = 1 THEN [tok EXCEPT !.locked = TRUE, !.details = CancellationDetails]
    ELSE [tok EXCEPT !.evt = TRUE, !.locked = FALSE]

-----------------------------------------------------------------------------
(* Handlers that wait on their token: tests/handler/test_cancellation.py *)

ExpectedCancellation == UserRaise("RuntimeError.Expected cancellation")
ExpectedCancellationDetails == UserRaise("RuntimeError.Expected cancellation details")

\* The wait both handlers begin with, as the steps it can take next: [waited, sleeping].
\*   CancellableAsyncOperationHandler.start:
\*     `await asyncio.wait_for(ctx.task_cancellation.wait_until_cancelled_async(), timeout=1)`
\*   MyService.cancellable_sync: `ctx.task_cancellation.wait_until_cancelled(1)`
WaitSteps(op_handler, tok, sleeping) ==
    IF op_handler.sync
    THEN {[waited |-> IF res THEN "True" ELSE "False", sleeping |-> FALSE] :
            res \in wait_until_cancelled(tok, "1")}
    ELSE IF wait_until_cancelled_async(tok)
    THEN {[waited |-> "returned", sleeping |-> FALSE]}
    ELSE IF ~sleeping THEN {[waited |-> None, sleeping |-> TRUE]}
    ELSE {}

\* `except TimeoutError` of asyncio.wait_for: the timeout can expire once the awaited
\* coroutine has suspended in asyncio.sleep.
CanTimeOut(op_handler, sleeping) == ~op_handler.sync /\ sleeping

\* the wait ended because the token was seen cancelled (or, for the async wait,
\* because the coroutine returned)
WaitSucceeded(waited) == waited \in {"True", "returned"}

\* The rest of both handlers: raise unless the wait succeeded, read
\* cancellation_details(), raise if absent, else return them.
AfterWait(waited, tok) ==
    IF ~WaitSucceeded(waited) THEN ExpectedCancellation
    ELSE IF cancellation_details(tok) = None THEN ExpectedCancellationDetails
    ELSE Outcome("Value", cancellation_details(tok), "handler")

\* start of either handler, given what its body did
CancellableStart(op_handler, body) ==
    IF op_handler.sync THEN Call(body, SyncOperationHandler_start(body))
    ELSE Call(NoOutcome, IF body.kind = "Raise" THEN body
                         ELSE StartOperationResultAsync(body.val))

\* MyService of the test, plus an operation "op" whose handler ignores its token
CancellationOps ==
    ("cancellable_async" :> Operation("cancellable_async", "cancellable_async", "None")) @@
    ("cancellable_sync" :> Operation("cancellable_sync", "cancellable_sync", "None")) @@
    ("op" :> Operation("op", "op", "int"))

MyService(h) ==
    Element("instance", ServiceDefinition("MyService", CancellationOps),
            ("cancellable_async" :> CancellableAsyncOperationHandler) @@
            ("cancellable_sync" :> CancellableSyncOperation) @@
            ("op" :> h))

\* StartOperationContext carries task_cancellation; the contexts of the other three
\* requests are built without one.
Context(rq, r) ==
    [rq EXCEPT !.task_cancellation = IF rq.method = "start" THEN r ELSE None]

TaskCancellationAfterRequest_Cancels(tokens, rq) ==
    IF rq.method = "cancel"
    THEN [s \in DOMAIN tokens |->
            IF tokens[s].kind = "Test" THEN cancel(cancel(tokens[s], 1), 2) ELSE tokens[s]]
    ELSE tokens

\* What an entry point does to the tokens of start contexts: Handler keeps no
\* reference to a start context or its token.
TaskCancellationAfterRequest(tokens, rq) == tokens

AfterTaskCancelled_Interrupts(rq) ==
    IF rq.pc \in {"submitted", "in_handler"}
    THEN [rq EXCEPT !.pc = "done",
                    !.result = Outcome("Raise", "CancelledError", "dispatcher")]
    ELSE rq

\* What cancelling the token does to the request that carries it: start_operation
\* never looks at ctx.task_cancellation.
AfterTaskCancelled(rq) == rq

-----------------------------------------------------------------------------
(* Interceptors: tests/handler/test_interceptors.py *)

CountingInterceptor == "CountingInterceptor"
AssertingInterceptor == "AssertingInterceptor"

\* the `interceptors` argument of Handler, as the tests and their variations pass it
InterceptorConfigurations ==
    {<<>>, <<AssertingInterceptor>>, <<CountingInterceptor>>,
     <<AssertingInterceptor, CountingInterceptor>>,
     <<CountingInterceptor, AssertingInterceptor>>}

Counters == [num_start |-> 0, num_cancel |-> 0, base_start |-> 0, base_cancel |-> 0]

\* A Handler's interceptors with the counters of its CountingInterceptor, the calls
\* of the base handler, and the request now passing through the wrappers: how many
\* wrappers it has entered (depth), whether it is going down or coming back up
\* (stage), what is being returned upwards (ret), what was observed (trace), and the
\* counters as they were when the request arrived (before).
Chain(interceptors) ==
    [interceptors |-> interceptors, counters |-> Counters, before |-> Counters,
     calls |-> 0, depth |-> 0, stage |-> "idle", ret |-> NoOutcome,
     aborted |-> FALSE, trace |-> <<>>]

Reverse(seq) == [i \in 1..Len(seq) |-> seq[Len(seq) + 1 - i]]

InterceptorChain_LastOutermost(interceptors) == Reverse(interceptors)

\* The wrappers around the base handler, outermost first: the first configured
\* interceptor is outermost.
InterceptorChain(interceptors) == interceptors

Bump(counters, method, start_field, cancel_field) ==
    IF method = "start" THEN [counters EXCEPT ![start_field] = @ + 1]
    ELSE [counters EXCEPT ![cancel_field] = @ + 1]

CountingOperationHandler_CountsBoth(counters, method) ==
    [counters EXCEPT !.num_start = @ + 1, !.num_cancel = @ + 1]

\* CountingOperationHandler.start / cancel before `await self._next...`
CountingOperationHandler(counters, method) ==
    Bump(counters, method, "num_start", "num_cancel")

\* AssertingOperationHandler.start / cancel: `assert self._counter.num_start == 0`
\* (resp. num_cancel)
AssertingOperationHandler(counters, method) ==
    IF method = "start" THEN counters.num_start = 0 ELSE counters.num_cancel = 0

AssertionError == Outcome("Raise", "AssertionError", "interceptor")

\* What a wrapper does before it calls next: whether it goes on, and the counters.
WrapperBefore(interceptor, counters, method) ==
    IF interceptor = CountingInterceptor
    THEN [ok |-> TRUE, counters |-> CountingOperationHandler(counters, method)]
    ELSE [ok |-> AssertingOperationHandler(counters, method), counters |-> counters]

\* What a wrapper returns once next has returned or raised: `return await next...`
\* and `return result` hand it on unchanged.
WrapperAfter(interceptor, ret) == ret

Before(interceptor) == <<interceptor, "before">>
After(interceptor) == <<interceptor, "after">>
Base(method) == <<"base", method>>

\* tests/handler/test_interceptors.py MyService and MyServiceSync, one operation each
IncrOps == ("incr" :> Operation("incr", "incr", "int"))

MyServiceAsync ==
    Element("instance", ServiceDefinition("MyService", IncrOps),
            ("incr" :> AsyncOperationHandler))

MyServiceSync ==
    Element("instance", ServiceDefinition("MyServiceSync", IncrOps),
            ("incr" :> SyncOperationHandlerAsyncDef))

-----------------------------------------------------------------------------
(* Failures: nexusrpc/_common.py *)

\* the names of HandlerErrorType; each member's value is its name
HandlerErrorType ==
    {"UNKNOWN", "BAD_REQUEST", "UNAUTHENTICATED", "UNAUTHORIZED", "NOT_FOUND",
     "REQUEST_TIMEOUT", "CONFLICT", "RESOURCE_EXHAUSTED", "INTERNAL", "NOT_IMPLEMENTED",
     "UNAVAILABLE", "UPSTREAM_TIMEOUT"}

\* OperationErrorState members and their values
OperationErrorState == {"FAILED", "CANCELED"}
StateValue(state) == IF state = "FAILED" THEN "failed" ELSE "canceled"

\* the `type` argument of HandlerError: a HandlerErrorType member, or a string
TypeArgument(is_str, name) == [is_str |-> is_str, name |-> name]
TypeArguments ==
    {TypeArgument(FALSE, n) : n \in HandlerErrorType} \cup
    {TypeArgument(TRUE, n) : n \in HandlerErrorType \cup {"SOME_UNKNOWN_TYPE", "not_found"}}

\* the `retryable_override` argument: None, True or False (booleans written as strings
\* so that they can sit in the same dict as other values)
True == "True"
False == "False"
Overrides == {None, True, False}

\* an optional Mapping argument: None, or a dict
Mapping(given, map) == [given |-> given, map |-> map]
NoMapping == Mapping(FALSE, EmptyMap)

UserKey == ("user-key" :> "user-value")
MetadataArguments ==
    {NoMapping, Mapping(TRUE, EmptyMap), Mapping(TRUE, UserKey),
     Mapping(TRUE, ("type" :> "user-type")),
     Mapping(TRUE, ("type" :> "user-type") @@ UserKey)}
DetailsArguments ==
    {NoMapping, Mapping(TRUE, UserKey),
     Mapping(TRUE, ("type" :> "user-type")),
     Mapping(TRUE, ("state" :> "user-state") @@ UserKey),
     Mapping(TRUE, ("retryableOverride" :> False)),
     Mapping(TRUE, ("retryableOverride" :> True) @@ UserKey),
     Mapping(TRUE, ("type" :> "user-type") @@ ("retryableOverride" :> False) @@ UserKey)}

\* `dict(m) if m else {}`
DictOrEmpty(m) == IF m.given THEN m.map ELSE EmptyMap

\* d[key] = value
SetItem(d, key, value) ==
    [k \in DOMAIN d \cup {key} |-> IF k = key THEN value ELSE d[k]]

\* Failure.__init__: `MappingProxyType(dict(m)) if m else None`
FailureMapping(d) == IF DOMAIN d = {} THEN NoMapping ELSE Mapping(TRUE, d)

NoFailure ==
    [class |-> None, type |-> None, raw_error_type |-> None, retryable_override |-> None,
     state |-> None, metadata |-> NoMapping, details |-> NoMapping]

\* HandlerError.__init__
HandlerError(type, retryable_override, metadata, details) ==
    LET raw_error_type == type.name
        error_type == IF type.is_str /\ type.name \notin HandlerErrorType
                      THEN "UNKNOWN" ELSE type.name
        failure_metadata == SetItem(DictOrEmpty(metadata), "type", "nexus.HandlerError")
        with_type == SetItem(DictOrEmpty(details), "type", raw_error_type)
        failure_details == IF retryable_override # None
                           THEN SetItem(with_type, "retryableOverride", retryable_override)
                           ELSE with_type
    IN  [class |-> "HandlerError", type |-> error_type, raw_error_type |-> raw_error_type,
         retryable_override |-> retryable_override, state |-> None,
         metadata |-> FailureMapping(failure_metadata),
         details |-> FailureMapping(failure_details)]

retryable_TypeDefaultOnly(err) ==
    err.type \in {"RESOURCE_EXHAUSTED", "REQUEST_TIMEOUT", "INTERNAL", "UNAVAILABLE",
                  "UPSTREAM_TIMEOUT", "UNKNOWN"}

\* HandlerError.retryable
retryable(err) ==
    IF err.retryable_override # None THEN err.retryable_override = True
    ELSE CASE err.type \in {"BAD_REQUEST", "UNAUTHENTICATED", "UNAUTHORIZED", "NOT_FOUND",
                            "CONFLICT", "NOT_IMPLEMENTED"} -> FALSE
           [] err.type \in {"RESOURCE_EXHAUSTED", "REQUEST_TIMEOUT", "INTERNAL",
                            "UNAVAILABLE", "UPSTREAM_TIMEOUT", "UNKNOWN"} -> TRUE

\* OperationError.__init__
OperationError(state, metadata, details) ==
    [class |-> "OperationError", type |-> None, raw_error_type |-> None,
     retryable_override |-> None, state |-> state,
     metadata |-> FailureMapping(SetItem(DictOrEmpty(metadata), "type", "nexus.OperationError")),
     details |-> FailureMapping(SetItem(DictOrEmpty(details), "state", StateValue(state)))]

\* the arguments a Failure was constructed with, and the exception object
WithArguments(type, retryable_override, state, metadata, details, err) ==
    [type |-> type, retryable_override |-> retryable_override, state |-> state,
     metadata |-> metadata, details |-> details, err |-> err]

NothingConstructed ==
    WithArguments(TypeArgument(FALSE, None), None, None, NoMapping, NoMapping, NoFailure)

-----------------------------------------------------------------------------
(* Validation against the service contract: nexusrpc/handler/_operation_handler.py *)

\* annotations: missing (None), typing.Any, and classes
AnyType == "Any"
Classes == {"NoneType", "X", "SuperClass", "Subclass", "str"}
TypeAnnotations == {None, AnyType} \cup Classes

\* issubclass(a, b) over the classes above: class Subclass(SuperClass)
issubclass(a, b) == a = b \/ (a = "Subclass" /\ b = "SuperClass")

\* the input and output types of an Operation
TypedOperation(input_type, output_type) ==
    [input_type |-> input_type, output_type |-> output_type]
TypedOperations == {TypedOperation(i, o) : i, o \in TypeAnnotations}

InputCompatible_Covariant(op, op_defn) ==
    ~ (/\ op.input_type # None
       /\ op_defn.input_type # None
       /\ AnyType \notin {op.input_type, op_defn.input_type}
       /\ ~ issubclass(op.input_type, op_defn.input_type))

\* the input check of validate_operation_handler_methods does not raise
InputCompatible(op, op_defn) ==
    ~ (/\ op.input_type # None
       /\ op_defn.input_type # None
       /\ AnyType \notin {op.input_type, op_defn.input_type}
       /\ ~ (\/ op_defn.input_type = op.input_type
             \/ issubclass(op_defn.input_type, op.input_type)))

\* the output check of validate_operation_handler_methods does not raise
OutputCompatible(op, op_defn) ==
    ~ (/\ op.output_type # None
       /\ op_defn.output_type # None
       /\ AnyType \notin {op.output_type, op_defn.output_type}
       /\ ~ issubclass(op.output_type, op_defn.output_type))

\* validate_operation_handler_methods: the exception raised, or None
validate_operation_handler_methods(user_methods, operations) ==
    LET error(op_name) ==
            IF op_name \notin DOMAIN user_methods THEN "TypeError.does_not_implement"
            ELSE IF ~InputCompatible(user_methods[op_name], operations[op_name])
            THEN "TypeError.input_type"
            ELSE IF ~OutputCompatible(user_methods[op_name], operations[op_name])
            THEN "TypeError.output_type"
            ELSE None
        items == SelectSeq(KeyOrder, LAMBDA k : k \in DOMAIN operations)
        raised == SelectSeq([i \in DOMAIN items |-> error(items[i])], LAMBDA e : e # None)
    IN  IF raised # <<>> THEN raised[1]
        ELSE IF DOMAIN user_methods \subseteq DOMAIN operations
                /\ DOMAIN user_methods # DOMAIN operations
        THEN "TypeError.missing_operations"
        ELSE IF DOMAIN operations \subseteq DOMAIN user_methods
                /\ DOMAIN operations # DOMAIN user_methods
        THEN "TypeError.extra_operations"
        ELSE None

Decoration(user_methods, operations, error) ==
    [user_methods |-> user_methods, operations |-> operations, error |-> error]
NotDecorated == Decoration(EmptyMap, EmptyMap, "NotDecorated")

\* handler classes: one operation handler method, none, or one more than the contract has
HandlerClasses ==
    {("op" :> t) : t \in TypedOperations} \cup {EmptyMap} \cup
    {("op" :> t) @@ ("pub" :> TypedOperation("X", "X")) : t \in TypedOperations}
Contracts == {("op" :> t) : t \in TypedOperations}

-----------------------------------------------------------------------------
(* Service definitions from user classes: nexusrpc/_service_definition.py *)

\* the attribute names of the user classes, and the names an Operation instance may carry
AttributeNames == {"a", "b"}
GivenNames == {"a", "a-name"}

\* a type annotation `k: Operation[I, O]`, or its absence
Annotation(input_type, output_type) == [input_type |-> input_type, output_type |-> output_type]
NoAnnotation == Annotation(None, None)
Annotations == {NoAnnotation, Annotation("int", "str"), Annotation("str", "str")}

\* one attribute of a class body: its annotation, and the name of the instance
\* `Operation(name=...)` assigned to it (None: no value assigned, so that the attribute
\* is absent from the class __dict__)
Declaration(annotation, instance) == [annotation |-> annotation, instance |-> instance]
Declarations ==
    {Declaration(an, i) : an \in Annotations, i \in GivenNames \cup {None}}
        \ {Declaration(NoAnnotation, None)}

\* class bodies: some of the attribute names, each with a declaration
ClassBodies ==
    UNION {[keys -> Declarations] : keys \in SUBSET AttributeNames}

\* the Operation dataclass, all four fields
OperationDefinition(name, method_name, input_type, output_type) ==
    [name |-> name, method_name |-> method_name, input_type |-> input_type,
     output_type |-> output_type]

\* what the functions below return: a dict of operations, or the exception raised
Operations(operations) == [ok |-> TRUE, operations |-> operations, error |-> None]
Raises(error) == [ok |-> FALSE, operations |-> EmptyMap, error |-> error]

\* ServiceDefinition._collect_operations: the operation of each attribute (an instance
\* gets its types from the annotation and its method_name from the attribute name; an
\* annotation alone makes Operation(name=key, method_name=key, ...)), then keyed by name
collect_operations(body) ==
    LET operation(key) ==
            IF body[key].instance = None
            THEN OperationDefinition(key, key, body[key].annotation.input_type,
                                     body[key].annotation.output_type)
            ELSE OperationDefinition(body[key].instance, key,
                                     body[key].annotation.input_type,
                                     body[key].annotation.output_type)
        names == {operation(key).name : key \in DOMAIN body}
    IN  IF \E j, k \in DOMAIN body : j # k /\ operation(j).name = operation(k).name
        THEN Raises("ValueError.defined_multiple_times")
        ELSE Operations([n \in names |->
                           operation(CHOOSE key \in DOMAIN body : operation(key).name = n)])

\* ServiceDefinition._merge_operations
merge_operations(parent_operations, body) ==
    LET collected == collect_operations(body)
        by_method_name(op_name) ==
            {n \in DOMAIN parent_operations : parent_operations[n].method_name = op_name}
        parent_op(op_name) == parent_operations[CHOOSE n \in by_method_name(op_name) : TRUE]
        in_dict(op_name) == op_name \in DOMAIN body /\ body[op_name].instance # None
        ops == collected.operations
        inherited == {n \in DOMAIN ops : by_method_name(n) # {}}
        mismatch == {n \in inherited :
                        /\ ~in_dict(n)
                        /\ \/ ops[n].input_type # parent_op(n).input_type
                           \/ ops[n].output_type # parent_op(n).output_type}
        replaced == {n \in inherited : in_dict(n)}
        added == DOMAIN ops \ inherited
    IN  IF ~collected.ok THEN collected
        ELSE IF mismatch # {} THEN Raises("TypeError.does_not_match_parent")
        ELSE Operations([n \in DOMAIN parent_operations \cup replaced \cup added |->
                           IF n \in replaced THEN parent_op(n)
                           ELSE IF n \in added THEN ops[n]
                           ELSE parent_operations[n]])

\* ServiceDefinition._validation_errors is empty
valid(operations) ==
    \A n \in DOMAIN operations :
        /\ operations[n].name # None
        /\ operations[n].method_name # None
        /\ operations[n].input_type # None
        /\ operations[n].output_type # None

\* ServiceDefinition.from_user_class for a class whose parent's parent is `object`
from_user_class(parent_body, body) ==
    LET parent_defn == merge_operations(EmptyMap, parent_body)
        merged == merge_operations(parent_defn.operations, body)
    IN  IF ~parent_defn.ok THEN parent_defn
        ELSE IF ~valid(parent_defn.operations) THEN Raises("ValueError.validation_errors")
        ELSE IF ~merged.ok THEN merged
        ELSE IF ~valid(merged.operations) THEN Raises("ValueError.validation_errors")
        ELSE merged

Definition(parent_body, body, outcome) ==
    [parent_body |-> parent_body, body |-> body, outcome |-> outcome]
NotDefined == Definition(EmptyMap, EmptyMap, Raises("NotDefined"))

-----------------------------------------------------------------------------
(* State machine *)

Requests ==
    {NewRequest("start", s, o, None, FALSE, ok) :
        s \in ServiceNames, o \in OperationNames, ok \in BOOLEAN} \cup
    {NewRequest(m, s, o, t, FALSE, TRUE) :
        m \in {"cancel", "fetch_info", "fetch_result"},
        s \in ServiceNames, o \in OperationNames, t \in Tokens} \cup
    {NewRequest("fetch_result", s, o, t, TRUE, TRUE) :
        s \in ServiceNames, o \in OperationNames, t \in Tokens}

Init ==
    /\ phase = "new"
    /\ dispatcher \in {"Handler", "SyncioHandler"}
    /\ user_service_handlers \in SeqsUpTo(UserServiceHandlers, MaxServiceHandlers)
    /\ executor \in BOOLEAN
    /\ service_handlers = EmptyMap
    /\ ctor_error = NoError
    /\ callers = {"r1"}
    /\ factory_calls = 0
    /\ task_cancellation = [r \in Slots |-> UncancellableOperationTaskCancellation]
    /\ cancelling = [r \in Slots |-> 0]
    /\ cancel_point = [r \in Slots |-> None]
    /\ chain = Chain(<<>>)
    /\ failure = NothingConstructed
    /\ decorated = NotDecorated
    /\ defined = NotDefined
    /\ reqs = [r \in Slots |-> IdleRequest]

\* BaseHandler.__init__, and what the subclass constructor adds to it
Construct ==
    /\ phase = "new"
    /\ LET made == Handler_init(dispatcher, user_service_handlers, executor)
       IN  /\ phase' = IF made.ok THEN "ready" ELSE "failed"
           /\ service_handlers' = IF made.ok THEN made.service_handlers ELSE EmptyMap
           /\ ctor_error' = made.error
           /\ user_service_handlers' = IF made.ok THEN <<>> ELSE user_service_handlers
    /\ factory_calls' = FactoryCallsFrom(user_service_handlers, 1, executor)
    /\ UNCHANGED <<dispatcher, executor, callers, reqs, task_cancellation, cancelling,
                   cancel_point, chain,
                   failure,
                   decorated,
                   defined>>

\* A request arrives: the entry point routes it and either fails, starts the
\* handler method inline, or submits it to the executor.
Dispatch(r) ==
    /\ phase = "ready"
    /\ r \in callers
    /\ reqs[r].pc = "idle"
    /\ \E rq \in Requests :
         /\ reqs' = [reqs EXCEPT ![r] = EntryPoint(dispatcher, service_handlers, executor, rq)]
         /\ service_handlers' = RegistryAfterRouting(service_handlers, rq.service, rq.operation)
    /\ UNCHANGED <<phase, dispatcher, user_service_handlers, executor,
                   ctor_error, callers, factory_calls, task_cancellation, cancelling,
                   cancel_point, chain,
                   failure,
                   decorated,
                   defined>>

\* A worker thread of the executor picks the submitted call up.
ExecutorRun(r) ==
    /\ reqs[r].pc = "submitted"
    /\ reqs' = [reqs EXCEPT ![r].pc = "in_handler", ![r].invoked = @ + 1]
    /\ UNCHANGED <<phase, dispatcher, user_service_handlers, executor, service_handlers,
                   ctor_error, callers, factory_calls, task_cancellation, cancelling,
                   cancel_point, chain,
                   failure,
                   decorated,
                   defined>>

\* The handler method returns or raises, and the entry point completes.
HandlerReturn(r) ==
    /\ reqs[r].pc = "in_handler"
    /\ ~(reqs[r].method = "start" /\ WaitsUntilCancelled(reqs[r].op_handler))
    /\ \E call \in HandlerCalls(reqs[r].op_handler, reqs[r].method) :
         reqs' = [reqs EXCEPT ![r].pc = "done", ![r].uret = call.uret,
                              ![r].hret = call.hret,
                              ![r].result = Completion(dispatcher, reqs[r], call.hret)]
    /\ UNCHANGED <<phase, dispatcher, user_service_handlers, executor, service_handlers,
                   ctor_error, callers, factory_calls, task_cancellation, cancelling,
                   cancel_point, chain,
                   failure,
                   decorated,
                   defined>>

\* The caller has the result; the slot serves the next request.
Collect(r) ==
    /\ reqs[r].pc = "done"
    /\ reqs' = [reqs EXCEPT ![r] = IdleRequest]
    /\ UNCHANGED <<phase, dispatcher, user_service_handlers, executor, service_handlers,
                   ctor_error, callers, factory_calls, task_cancellation, cancelling,
                   cancel_point, chain,
                   failure,
                   decorated,
                   defined>>

CancellationRequests ==
    {NewRequest("start", "MyService", o, None, FALSE, TRUE) :
        o \in {"cancellable_async", "cancellable_sync", "op"}} \cup
    {NewRequest(m, "MyService", "cancellable_async", CancellationDetails, FALSE, TRUE) :
        m \in {"cancel", "fetch_info", "fetch_result"}}

CancellationInit ==
    /\ phase = "new"
    /\ dispatcher = "Handler"
    /\ user_service_handlers \in
          {<<MyService(AsyncOperationHandler)>>, <<MyService(BlockingOperationHandler)>>}
    /\ executor = TRUE
    /\ service_handlers = EmptyMap
    /\ ctor_error = NoError
    /\ callers = Slots
    /\ factory_calls = 0
    /\ task_cancellation \in
          [Slots -> {UncancellableOperationTaskCancellation, TestOperationTaskCancellation}]
    /\ cancelling = [r \in Slots |-> 0]
    /\ cancel_point = [r \in Slots |-> None]
    /\ chain = Chain(<<>>)
    /\ failure = NothingConstructed
    /\ decorated = NotDecorated
    /\ defined = NotDefined
    /\ reqs = [r \in Slots |-> IdleRequest]

\* A request of the cancellation tests arrives; a start context carries the slot's token.
DispatchWithContext(r) ==
    /\ phase = "ready"
    /\ r \in callers
    /\ reqs[r].pc = "idle"
    /\ \E rq \in CancellationRequests :
         /\ reqs' = [reqs EXCEPT ![r] = EntryPoint(dispatcher, service_handlers, executor,
                                                   Context(rq, r))]
         /\ service_handlers' = RegistryAfterRouting(service_handlers, rq.service, rq.operation)
         /\ task_cancellation' = TaskCancellationAfterRequest(task_cancellation, rq)
    /\ UNCHANGED <<phase, dispatcher, user_service_handlers, executor,
                   ctor_error, callers, factory_calls, cancelling, cancel_point, chain,
                   failure,
                   decorated,
                   defined>>

Waiting(rq) ==
    /\ rq.pc = "in_handler" /\ rq.method = "start"
    /\ WaitsUntilCancelled(rq.op_handler)
    /\ rq.waited = None

\* The handler's wait takes a step: it returns, or the async wait goes to sleep.
HandlerWaits(r) ==
    /\ Waiting(reqs[r])
    /\ \E step \in WaitSteps(reqs[r].op_handler,
                               task_cancellation[reqs[r].task_cancellation],
                               reqs[r].sleeping) :
         reqs' = [reqs EXCEPT ![r].waited = step.waited, ![r].sleeping = step.sleeping]
    /\ UNCHANGED <<phase, dispatcher, user_service_handlers, executor, service_handlers,
                   ctor_error, callers, factory_calls, task_cancellation, cancelling,
                   cancel_point, chain,
                   failure,
                   decorated,
                   defined>>

\* asyncio.wait_for gives up on the sleeping wait.
HandlerWaitTimesOut(r) ==
    /\ Waiting(reqs[r])
    /\ CanTimeOut(reqs[r].op_handler, reqs[r].sleeping)
    /\ reqs' = [reqs EXCEPT ![r].waited = "TimeoutError", ![r].sleeping = FALSE]
    /\ UNCHANGED <<phase, dispatcher, user_service_handlers, executor, service_handlers,
                   ctor_error, callers, factory_calls, task_cancellation, cancelling,
                   cancel_point, chain,
                   failure,
                   decorated,
                   defined>>

\* The handler reads the details and returns or raises; the entry point completes.
WaitingHandlerReturn(r) ==
    /\ reqs[r].pc = "in_handler" /\ reqs[r].method = "start"
    /\ WaitsUntilCancelled(reqs[r].op_handler)
    /\ reqs[r].waited # None
    /\ LET tok == task_cancellation[reqs[r].task_cancellation]
           body == AfterWait(reqs[r].waited, tok)
           call == CancellableStart(reqs[r].op_handler, body)
       IN  /\ WaitSucceeded(reqs[r].waited) => CanReadDetails(tok)
           /\ reqs' = [reqs EXCEPT
                         ![r].pc = "done",
                         ![r].details = IF WaitSucceeded(reqs[r].waited)
                                        THEN cancellation_details(tok) ELSE None,
                         ![r].uret = call.uret, ![r].hret = call.hret,
                         ![r].result = Completion(dispatcher, reqs[r], call.hret)]
    /\ UNCHANGED <<phase, dispatcher, user_service_handlers, executor, service_handlers,
                   ctor_error, callers, factory_calls, task_cancellation, cancelling,
                   cancel_point, chain,
                   failure,
                   decorated,
                   defined>>

\* Another thread calls cancel() on the slot's token (TestOperationTaskCancellation.cancel),
\* one step of it at a time. A task is cancelled once: cancelling[r] is 0 before the
\* call, 1 while it holds the lock and 2 after it.
TokenCancel(r) ==
    /\ phase = "ready"
    /\ task_cancellation[r].kind = "Test"
    /\ \/ /\ cancelling[r] = 0
          /\ ~task_cancellation[r].locked
          /\ task_cancellation' = [task_cancellation EXCEPT ![r] = cancel(@, 1)]
          /\ cancelling' = [cancelling EXCEPT ![r] = 1]
          /\ cancel_point' =
                [cancel_point EXCEPT ![r] =
                   IF @ # None THEN @
                   ELSE IF Waiting(reqs[r]) THEN "waiting" ELSE reqs[r].pc]
       \/ /\ cancelling[r] = 1
          /\ task_cancellation' = [task_cancellation EXCEPT ![r] = cancel(@, 2)]
          /\ cancelling' = [cancelling EXCEPT ![r] = 2]
          /\ UNCHANGED cancel_point
    /\ reqs' = [reqs EXCEPT ![r] = AfterTaskCancelled(@)]
    /\ UNCHANGED <<phase, dispatcher, user_service_handlers, executor, service_handlers,
                   ctor_error, callers, factory_calls, chain,
                   failure,
                   decorated,
                   defined>>

CancellationNext ==
    \/ Construct
    \/ \E r \in Slots : DispatchWithContext(r)
    \/ \E r \in Slots : ExecutorRun(r)
    \/ \E r \in Slots : HandlerReturn(r)
    \/ \E r \in Slots : HandlerWaits(r)
    \/ \E r \in Slots : HandlerWaitTimesOut(r)
    \/ \E r \in Slots : WaitingHandlerReturn(r)
    \/ \E r \in Slots : TokenCancel(r)

\* The event loop and the executor's threads keep running what is runnable, and a
\* cancel() call that has begun completes.
CancellationFairness ==
    \A r \in Slots :
        /\ WF_vars(ExecutorRun(r))
        /\ WF_vars(HandlerReturn(r))
        /\ WF_vars(HandlerWaits(r))
        /\ WF_vars(HandlerWaitTimesOut(r))
        /\ WF_vars(WaitingHandlerReturn(r))
        /\ WF_vars(cancelling[r] = 1 /\ TokenCancel(r))

CancellationSpec == CancellationInit /\ [][CancellationNext]_vars /\ CancellationFairness

\* One request at a time, its token cancelled concurrently or not at all.
OneTaskInit ==
    /\ phase = "new"
    /\ dispatcher = "Handler"
    /\ user_service_handlers \in
          {<<MyService(AsyncOperationHandler)>>, <<MyService(BlockingOperationHandler)>>}
    /\ executor = TRUE
    /\ service_handlers = EmptyMap
    /\ ctor_error = NoError
    /\ callers = {"r1"}
    /\ factory_calls = 0
    /\ task_cancellation \in
          {[r \in Slots |-> IF r = "r1" THEN t ELSE UncancellableOperationTaskCancellation] :
              t \in {UncancellableOperationTaskCancellation, TestOperationTaskCancellation}}
    /\ cancelling = [r \in Slots |-> 0]
    /\ cancel_point = [r \in Slots |-> None]
    /\ chain = Chain(<<>>)
    /\ failure = NothingConstructed
    /\ decorated = NotDecorated
    /\ defined = NotDefined
    /\ reqs = [r \in Slots |-> IdleRequest]

OneTaskSpec == OneTaskInit /\ [][CancellationNext]_vars /\ CancellationFairness

InterceptedRequests ==
    {NewRequest(m, svc, "incr", t, FALSE, TRUE) :
        m \in {"start", "cancel"}, svc \in {"MyService", "MyServiceSync"}, t \in {"t1"}}

InterceptorsInit ==
    /\ phase = "new"
    /\ dispatcher = "Handler"
    /\ user_service_handlers \in {<<MyServiceAsync>>, <<MyServiceSync>>}
    /\ executor \in BOOLEAN
    /\ service_handlers = EmptyMap
    /\ ctor_error = NoError
    /\ callers = {"r1"}
    /\ factory_calls = 0
    /\ task_cancellation = [r \in Slots |-> UncancellableOperationTaskCancellation]
    /\ cancelling = [r \in Slots |-> 0]
    /\ cancel_point = [r \in Slots |-> None]
    /\ chain \in {Chain(i) : i \in InterceptorConfigurations}
    /\ failure = NothingConstructed
    /\ decorated = NotDecorated
    /\ defined = NotDefined
    /\ reqs = [r \in Slots |-> IdleRequest]

\* A start or cancel request arrives at a Handler that has interceptors.
InterceptedDispatch(r) ==
    /\ phase = "ready"
    /\ r \in callers
    /\ reqs[r].pc = "idle"
    /\ chain.calls < MaxCalls
    /\ \E rq \in InterceptedRequests :
         /\ reqs' = [reqs EXCEPT ![r] = EntryPoint(dispatcher, service_handlers, executor, rq)]
         /\ service_handlers' = RegistryAfterRouting(service_handlers, rq.service, rq.operation)
    /\ chain' = [chain EXCEPT !.calls = @ + 1, !.depth = 0, !.stage = "down",
                              !.ret = NoOutcome, !.aborted = FALSE, !.trace = <<>>,
                              !.before = chain.counters]
    /\ UNCHANGED <<phase, dispatcher, user_service_handlers, executor, ctor_error, callers,
                   factory_calls, task_cancellation, cancelling, cancel_point, failure,
                   decorated,
                   defined>>

\* The next wrapper is entered: it runs up to its `await self._next...`, or raises.
InterceptorBefore(r) ==
    /\ reqs[r].pc = "in_handler"
    /\ chain.stage = "down"
    /\ chain.depth < Len(chain.interceptors)
    /\ LET interceptor == InterceptorChain(chain.interceptors)[chain.depth + 1]
           before == WrapperBefore(interceptor, chain.counters, reqs[r].method)
       IN  chain' = IF before.ok
                    THEN [chain EXCEPT !.depth = @ + 1, !.counters = before.counters,
                                       !.trace = Append(@, Before(interceptor))]
                    ELSE [chain EXCEPT !.stage = "up", !.ret = AssertionError,
                                       !.aborted = TRUE]
    /\ UNCHANGED <<phase, dispatcher, user_service_handlers, executor, service_handlers,
                   ctor_error, callers, factory_calls, task_cancellation, cancelling,
                   cancel_point, reqs, failure,
                   decorated,
                   defined>>

\* The innermost wrapper calls the base handler's method, which returns or raises.
BaseHandlerReturn(r) ==
    /\ reqs[r].pc = "in_handler"
    /\ chain.stage = "down"
    /\ chain.depth = Len(chain.interceptors)
    /\ \E call \in HandlerCalls(reqs[r].op_handler, reqs[r].method) :
         /\ reqs' = [reqs EXCEPT ![r].uret = call.uret, ![r].hret = call.hret]
         /\ chain' = [chain EXCEPT
                        !.stage = "up", !.ret = call.hret,
                        !.counters = Bump(@, reqs[r].method, "base_start", "base_cancel"),
                        !.trace = Append(@, Base(reqs[r].method))]
    /\ UNCHANGED <<phase, dispatcher, user_service_handlers, executor, service_handlers,
                   ctor_error, callers, factory_calls, task_cancellation, cancelling,
                   cancel_point, failure,
                   decorated,
                   defined>>

\* Control comes back to a wrapper, which returns what it got.
InterceptorAfter(r) ==
    /\ reqs[r].pc = "in_handler"
    /\ chain.stage = "up"
    /\ chain.depth > 0
    /\ LET interceptor == InterceptorChain(chain.interceptors)[chain.depth]
       IN  chain' = [chain EXCEPT !.depth = @ - 1,
                                  !.ret = WrapperAfter(interceptor, @),
                                  !.trace = Append(@, After(interceptor))]
    /\ UNCHANGED <<phase, dispatcher, user_service_handlers, executor, service_handlers,
                   ctor_error, callers, factory_calls, task_cancellation, cancelling,
                   cancel_point, reqs, failure,
                   decorated,
                   defined>>

\* The outermost wrapper has returned or raised; the entry point completes.
InterceptedReturn(r) ==
    /\ reqs[r].pc = "in_handler"
    /\ chain.stage = "up"
    /\ chain.depth = 0
    /\ reqs' = [reqs EXCEPT ![r].pc = "done",
                            ![r].result = Completion(dispatcher, reqs[r], chain.ret)]
    /\ chain' = [chain EXCEPT !.stage = "idle"]
    /\ UNCHANGED <<phase, dispatcher, user_service_handlers, executor, service_handlers,
                   ctor_error, callers, factory_calls, task_cancellation, cancelling,
                   cancel_point, failure,
                   decorated,
                   defined>>

InterceptorsNext ==
    \/ Construct
    \/ \E r \in Slots : InterceptedDispatch(r)
    \/ \E r \in Slots : InterceptorBefore(r)
    \/ \E r \in Slots : BaseHandlerReturn(r)
    \/ \E r \in Slots : InterceptorAfter(r)
    \/ \E r \in Slots : InterceptedReturn(r)
    \/ \E r \in Slots : Collect(r)

InterceptorsSpec == InterceptorsInit /\ [][InterceptorsNext]_vars

\* Handler with one service whose handler mixes `async def` and plain `def` methods,
\* serving two requests at a time.
ConcurrentInit ==
    /\ phase = "new"
    /\ dispatcher = "Handler"
    /\ user_service_handlers \in
          {<<Instance("a", h)>> :
              h \in {AsyncOperationHandler, BlockingOperationHandler, BlockingStartHandler,
                     BlockingCancelHandler, SyncOperationHandlerAsyncDef}}
    /\ executor \in BOOLEAN
    /\ service_handlers = EmptyMap
    /\ ctor_error = NoError
    /\ callers = Slots
    /\ factory_calls = 0
    /\ task_cancellation = [r \in Slots |-> UncancellableOperationTaskCancellation]
    /\ cancelling = [r \in Slots |-> 0]
    /\ cancel_point = [r \in Slots |-> None]
    /\ chain = Chain(<<>>)
    /\ failure = NothingConstructed
    /\ decorated = NotDecorated
    /\ defined = NotDefined
    /\ reqs = [r \in Slots |-> IdleRequest]

ConcurrentRequests ==
    {NewRequest("start", "a", "op", None, FALSE, TRUE)} \cup
    {NewRequest(m, "a", "op", "t1", FALSE, TRUE) : m \in {"cancel", "fetch_info", "fetch_result"}}

DispatchConcurrently_OneAtATime(r) ==
    /\ phase = "ready"
    /\ r \in callers
    /\ reqs[r].pc = "idle"
    /\ \A q \in Slots : reqs[q].pc \in {"idle", "done"}
    /\ \E rq \in ConcurrentRequests :
         /\ reqs' = [reqs EXCEPT ![r] = EntryPoint(dispatcher, service_handlers, executor, rq)]
         /\ service_handlers' = RegistryAfterRouting(service_handlers, rq.service, rq.operation)
    /\ UNCHANGED <<phase, dispatcher, user_service_handlers, executor,
                   ctor_error, callers, factory_calls, task_cancellation, cancelling,
                   cancel_point, chain, failure, decorated,
                   defined>>

\* A request arrives while the other slot may be in flight.
DispatchConcurrently(r) ==
    /\ phase = "ready"
    /\ r \in callers
    /\ reqs[r].pc = "idle"
    /\ \E rq \in ConcurrentRequests :
         /\ reqs' = [reqs EXCEPT ![r] = EntryPoint(dispatcher, service_handlers, executor, rq)]
         /\ service_handlers' = RegistryAfterRouting(service_handlers, rq.service, rq.operation)
    /\ UNCHANGED <<phase, dispatcher, user_service_handlers, executor,
                   ctor_error, callers, factory_calls, task_cancellation, cancelling,
                   cancel_point, chain,
                   failure,
                   decorated,
                   defined>>

ConcurrentNext ==
    \/ Construct
    \/ \E r \in Slots : DispatchConcurrently(r)
    \/ \E r \in Slots : ExecutorRun(r)
    \/ \E r \in Slots : HandlerReturn(r)
    \/ \E r \in Slots : Collect(r)

ConcurrentSpec == ConcurrentInit /\ [][ConcurrentNext]_vars

\* No Handler is involved: failures are constructed by user code and by the dispatcher.
FailuresInit ==
    /\ phase = "new"
    /\ dispatcher = "Handler"
    /\ user_service_handlers = <<>>
    /\ executor = FALSE
    /\ service_handlers = EmptyMap
    /\ ctor_error = NoError
    /\ callers = {}
    /\ factory_calls = 0
    /\ task_cancellation = [r \in Slots |-> UncancellableOperationTaskCancellation]
    /\ cancelling = [r \in Slots |-> 0]
    /\ cancel_point = [r \in Slots |-> None]
    /\ chain = Chain(<<>>)
    /\ failure = NothingConstructed
    /\ decorated = NotDecorated
    /\ defined = NotDefined
    /\ reqs = [r \in Slots |-> IdleRequest]

\* HandlerError(message, type=..., retryable_override=..., metadata=..., details=...)
ConstructHandlerError ==
    /\ failure = NothingConstructed
    /\ \E type \in TypeArguments, retryable_override \in Overrides,
          metadata \in MetadataArguments, details \in DetailsArguments :
         failure' = WithArguments(type, retryable_override, None, metadata, details,
                           HandlerError(type, retryable_override, metadata, details))
    /\ UNCHANGED <<phase, dispatcher, user_service_handlers, executor, service_handlers,
                   ctor_error, callers, factory_calls, task_cancellation, cancelling,
                   cancel_point, chain, decorated, defined,
                   reqs>>

\* OperationError(message, state=..., metadata=..., details=...)
ConstructOperationError ==
    /\ failure = NothingConstructed
    /\ \E state \in OperationErrorState,
          metadata \in MetadataArguments, details \in DetailsArguments :
         failure' = WithArguments(TypeArgument(FALSE, None), None, state, metadata, details,
                           OperationError(state, metadata, details))
    /\ UNCHANGED <<phase, dispatcher, user_service_handlers, executor, service_handlers,
                   ctor_error, callers, factory_calls, task_cancellation, cancelling,
                   cancel_point, chain, decorated, defined,
                   reqs>>

\* the exception has been handled
ForgetFailure ==
    /\ failure # NothingConstructed
    /\ failure' = NothingConstructed
    /\ UNCHANGED <<phase, dispatcher, user_service_handlers, executor, service_handlers,
                   ctor_error, callers, factory_calls, task_cancellation, cancelling,
                   cancel_point, chain, decorated, defined,
                   reqs>>

FailuresNext ==
    \/ ConstructHandlerError
    \/ ConstructOperationError
    \/ ForgetFailure

FailuresSpec == FailuresInit /\ [][FailuresNext]_vars

\* No Handler is involved: classes are decorated at import time.
DecorationInit ==
    /\ phase = "new"
    /\ dispatcher = "Handler"
    /\ user_service_handlers = <<>>
    /\ executor = FALSE
    /\ service_handlers = EmptyMap
    /\ ctor_error = NoError
    /\ callers = {}
    /\ factory_calls = 0
    /\ task_cancellation = [r \in Slots |-> UncancellableOperationTaskCancellation]
    /\ cancelling = [r \in Slots |-> 0]
    /\ cancel_point = [r \in Slots |-> None]
    /\ chain = Chain(<<>>)
    /\ failure = NothingConstructed
    /\ decorated = NotDecorated
    /\ defined = NotDefined
    /\ reqs = [r \in Slots |-> IdleRequest]

\* @service_handler(service=D) applied to a handler class
ServiceHandlerDecorator ==
    /\ decorated = NotDecorated
    /\ \E user_methods \in HandlerClasses, operations \in Contracts :
         decorated' = Decoration(user_methods, operations,
                                 validate_operation_handler_methods(user_methods, operations))
    /\ UNCHANGED <<phase, dispatcher, user_service_handlers, executor, service_handlers,
                   ctor_error, callers, factory_calls, task_cancellation, cancelling,
                   cancel_point, chain, failure, reqs, defined>>

\* the next class definition is evaluated
NextClass ==
    /\ decorated # NotDecorated
    /\ decorated' = NotDecorated
    /\ UNCHANGED <<phase, dispatcher, user_service_handlers, executor, service_handlers,
                   ctor_error, callers, factory_calls, task_cancellation, cancelling,
                   cancel_point, chain, failure, reqs, defined>>

DecorationNext ==
    \/ ServiceHandlerDecorator
    \/ NextClass

DecorationSpec == DecorationInit /\ [][DecorationNext]_vars

\* No Handler is involved: service definitions are made at import time.
DefinitionInit ==
    /\ phase = "new"
    /\ dispatcher = "Handler"
    /\ user_service_handlers = <<>>
    /\ executor = FALSE
    /\ service_handlers = EmptyMap
    /\ ctor_error = NoError
    /\ callers = {}
    /\ factory_calls = 0
    /\ task_cancellation = [r \in Slots |-> UncancellableOperationTaskCancellation]
    /\ cancelling = [r \in Slots |-> 0]
    /\ cancel_point = [r \in Slots |-> None]
    /\ chain = Chain(<<>>)
    /\ failure = NothingConstructed
    /\ decorated = NotDecorated
    /\ defined = NotDefined
    /\ reqs = [r \in Slots |-> IdleRequest]

\* @service applied to a class A2(A1)
ServiceDecorator ==
    /\ defined = NotDefined
    /\ \E parent_body \in ClassBodies, body \in ClassBodies :
         defined' = Definition(parent_body, body, from_user_class(parent_body, body))
    /\ UNCHANGED <<phase, dispatcher, user_service_handlers, executor, service_handlers,
                   ctor_error, callers, factory_calls, task_cancellation, cancelling,
                   cancel_point, chain, failure, decorated, reqs>>

\* the next class definition is evaluated
NextDefinition ==
    /\ defined # NotDefined
    /\ defined' = NotDefined
    /\ UNCHANGED <<phase, dispatcher, user_service_handlers, executor, service_handlers,
                   ctor_error, callers, factory_calls, task_cancellation, cancelling,
                   cancel_point, chain, failure, decorated, reqs>>

DefinitionNext ==
    \/ ServiceDecorator
    \/ NextDefinition

DefinitionSpec == DefinitionInit /\ [][DefinitionNext]_vars

\* The dispatcher is nexusrpc.handler.Handler or nexusrpc.syncio.handler.Handler.
SyncioInit ==
    /\ phase = "new"
    /\ dispatcher \in {"Handler", "syncio.Handler"}
    /\ user_service_handlers \in SeqsUpTo(UserServiceHandlers, MaxServiceHandlers)
    /\ executor \in BOOLEAN
    /\ service_handlers = EmptyMap
    /\ ctor_error = NoError
    /\ callers = {"r1"}
    /\ factory_calls = 0
    /\ task_cancellation = [r \in Slots |-> UncancellableOperationTaskCancellation]
    /\ cancelling = [r \in Slots |-> 0]
    /\ cancel_point = [r \in Slots |-> None]
    /\ chain = Chain(<<>>)
    /\ failure = NothingConstructed
    /\ decorated = NotDecorated
    /\ defined = NotDefined
    /\ reqs = [r \in Slots |-> IdleRequest]

Next ==
    \/ Construct
    \/ \E r \in Slots : Dispatch(r)
    \/ \E r \in Slots : ExecutorRun(r)
    \/ \E r \in Slots : HandlerReturn(r)
    \/ \E r \in Slots : Collect(r)

Spec == Init /\ [][Next]_vars

SyncioSpec == SyncioInit /\ [][Next]_vars

-----------------------------------------------------------------------------
(* Properties *)

Done(r) == reqs[r].pc = "done"

\* the request names an unregistered service, or an operation the addressed
\* service's definition does not have
UnknownTarget(rq) ==
    \/ rq.service \notin DOMAIN service_handlers
    \/ rq.operation \notin DOMAIN service_handlers[rq.service].service.operations

Routes(rq) == Route(service_handlers, rq.service, rq.operation).ok

RoutedHandler(rq) == Route(service_handlers, rq.service, rq.operation).op_handler

IsNotFound(outcome) ==
    outcome.kind = "Raise" /\ outcome.val = "HandlerError.NOT_FOUND" /\ outcome.by = "dispatcher"

\* C1 (as stated): on Handler, every request for an unknown service or operation
\* fails NOT_FOUND on each of the four entry points, and no handler method is invoked.
C1_UnknownTargetIsNotFound ==
    \A r \in Slots :
        (dispatcher = "Handler" /\ Done(r) /\ UnknownTarget(reqs[r]))
            => (IsNotFound(reqs[r].result) /\ reqs[r].invoked = 0)

\* C1 (amended): on Handler, a request for an unknown service or operation never
\* reaches a handler method; it fails NOT_FOUND, except that fetch_operation_result
\* with a wait parameter or request-timeout header fails NotImplementedError first.
C1_UnknownTargetIsNotFoundUnlessWait ==
    \A r \in Slots :
        (dispatcher = "Handler" /\ reqs[r].pc # "idle" /\ UnknownTarget(reqs[r]))
            => /\ Done(r)
               /\ reqs[r].invoked = 0
               /\ IF reqs[r].method = "fetch_result" /\ reqs[r].wait
                  THEN reqs[r].result = WaitNotSupported
                  ELSE IsNotFound(reqs[r].result)

C1_Witness ==
    \E r \in Slots :
        /\ dispatcher = "Handler" /\ Done(r)
        /\ reqs[r].method = "fetch_result" /\ ~reqs[r].wait
        /\ reqs[r].service \in DOMAIN service_handlers
        /\ UnknownTarget(reqs[r])
        /\ IsNotFound(reqs[r].result)

\* C2 (as stated): a Handler constructed without an executor holds no operation
\* handler with a blocking start, cancel, fetch_info or fetch_result.
C2_NoBlockingMethodWithoutExecutor ==
    (phase = "ready" /\ dispatcher = "Handler" /\ ~executor)
        => \A s \in DOMAIN service_handlers :
             \A o \in DOMAIN service_handlers[s].operation_handlers :
               \A m \in Methods :
                 is_async_callable(service_handlers[s].operation_handlers[o], m)

\* C3 (as stated): a start request that routes and whose input deserializes invokes
\* the handler's start exactly once; one that fails routing invokes it zero times.
C3_StartInvokedExactlyOnce ==
    \A r \in Slots :
        (Done(r) /\ reqs[r].method = "start")
            => /\ (Routes(reqs[r]) /\ reqs[r].input_ok) => reqs[r].invoked = 1
               /\ ~Routes(reqs[r]) => reqs[r].invoked = 0

\* the execution-mode check of start_operation lets the call through
ModeAccepted(rq) ==
    \/ dispatcher = "Handler"
    \/ /\ dispatcher = "SyncioHandler"
       /\ ~is_async_callable(RoutedHandler(rq), "start")
       /\ executor

\* C3 (amended): start is invoked at most once per start request and never again
\* after it raised; exactly once when the request routes, its input deserializes and
\* the execution-mode check passes (always on Handler; on SyncioHandler for a plain
\* `def` start with an executor), and zero times otherwise.
C3_StartInvokedAtMostOnce ==
    \A r \in Slots :
        reqs[r].method = "start"
            => /\ reqs[r].invoked <= 1
               /\ Done(r) =>
                    reqs[r].invoked =
                        IF Routes(reqs[r]) /\ reqs[r].input_ok /\ ModeAccepted(reqs[r])
                        THEN 1 ELSE 0

C3_Witness ==
    \E r \in Slots :
        /\ Done(r) /\ reqs[r].method = "start" /\ reqs[r].where = "executor"
        /\ reqs[r].hret.kind = "Raise" /\ reqs[r].invoked = 1

IsStartResult(outcome) == outcome.kind \in {"Sync", "Async"}

Returned(rq) == rq.pc = "done" /\ rq.result.kind # "Raise"

\* C4 (as stated): whatever start_operation returns is a StartOperationResultSync or
\* a StartOperationResultAsync.
C4_StartReturnsSyncOrAsync ==
    \A r \in Slots :
        (Returned(reqs[r]) /\ reqs[r].method = "start") => IsStartResult(reqs[r].result)

\* C4 (amended): start_operation returns the variant the handler's start returned and
\* makes none of its own: the result is a Sync or an Async exactly when the handler's
\* start returned one; a start returning neither has that value handed to the caller,
\* except that Handler refuses an awaitable coming back from the executor.
C4_StartReturnsWhatStartReturned ==
    \A r \in Slots :
        (Returned(reqs[r]) /\ reqs[r].method = "start")
            => /\ reqs[r].result.by = "handler"
               /\ reqs[r].result.kind = reqs[r].hret.kind
               /\ IsStartResult(reqs[r].result) <=> IsStartResult(reqs[r].hret)
               /\ reqs[r].result.kind = "Awaitable"
                    => ~(dispatcher = "Handler" /\ reqs[r].where = "executor")

C4_Witness ==
    \E r \in Slots :
        /\ Returned(reqs[r]) /\ reqs[r].method = "start"
        /\ reqs[r].hret.kind = "None" /\ reqs[r].result.kind = "None"

\* C5: when the handler's start returns Sync(v) or Async(t), start_operation returns
\* that same result, on the inline path and on the executor path.
C5_StartResultUnchanged ==
    \A r \in Slots :
        (Done(r) /\ reqs[r].method = "start" /\ IsStartResult(reqs[r].hret))
            => /\ reqs[r].result = reqs[r].hret
               /\ reqs[r].where \in {"inline", "executor"}

C5_Witness ==
    \E r \in Slots :
        /\ Done(r) /\ reqs[r].method = "start" /\ dispatcher = "Handler"
        /\ reqs[r].where = "executor"
        /\ reqs[r].hret = StartOperationResultAsync("t2")
        /\ reqs[r].result = StartOperationResultAsync("t2")

RoutingErrors == {"HandlerError.NOT_FOUND"}

ConfigurationErrors ==
    {NoExecutorError(m).val : m \in Methods} \cup
    {ReturnedAwaitableError(m).val : m \in Methods}

\* C6 (as stated): on Handler, an exception raised by a handler method reaches the
\* caller as that same exception, and the Handler's own exceptions are routing or
\* configuration failures only.
C6_OnlyRoutingAndConfigurationErrors ==
    \A r \in Slots :
        (dispatcher = "Handler" /\ Done(r))
            => /\ reqs[r].hret.kind = "Raise" => reqs[r].result = reqs[r].hret
               /\ (reqs[r].result.kind = "Raise" /\ reqs[r].result.by = "dispatcher")
                    => reqs[r].result.val \in RoutingErrors \cup ConfigurationErrors

\* C6 (amended): on Handler, an exception raised by a handler method reaches the
\* caller as that same exception, inline and from the executor; the Handler's own
\* exceptions are routing failures, configuration failures, and NotImplementedError
\* for a fetch_operation_result request with a wait parameter or request-timeout.
C6_HandlerExceptionsUnchanged ==
    \A r \in Slots :
        (dispatcher = "Handler" /\ Done(r))
            => /\ reqs[r].hret.kind = "Raise" => reqs[r].result = reqs[r].hret
               /\ (reqs[r].result.kind = "Raise" /\ reqs[r].result.by = "dispatcher")
                    => /\ reqs[r].result.val \in
                            RoutingErrors \cup ConfigurationErrors \cup {WaitNotSupported.val}
                       /\ reqs[r].result.val = WaitNotSupported.val
                            => (reqs[r].method = "fetch_result" /\ reqs[r].wait)

C6_Witness ==
    \E r \in Slots :
        /\ dispatcher = "Handler" /\ Done(r) /\ reqs[r].where = "executor"
        /\ reqs[r].hret = UserRaise("HandlerError.NOT_FOUND")
        /\ reqs[r].result = reqs[r].hret

\* C7 (as stated): on Handler, with or without an executor, cancel, fetch_info and
\* fetch_result of an operation with a synchronously-completing handler always fail
\* with the handler's "responded synchronously" error.
C7_SyncOperationAlwaysUnsupported ==
    \A r \in Slots :
        (/\ dispatcher = "Handler" /\ Done(r)
         /\ reqs[r].method \in {"cancel", "fetch_info", "fetch_result"}
         /\ ~reqs[r].wait
         /\ Routes(reqs[r]) /\ RoutedHandler(reqs[r]).sync)
            => reqs[r].result = RespondedSynchronously(reqs[r].method)

\* C8: start of a synchronously-completing handler raises the user function's
\* exception or returns Sync of the user function's return value, never an Async.
C8_SyncStartWrapsUserResult ==
    \A r \in Slots :
        (Done(r) /\ reqs[r].method = "start" /\ reqs[r].invoked > 0 /\ reqs[r].op_handler.sync)
            => /\ reqs[r].hret.kind \in {"Sync", "Raise"}
               /\ reqs[r].hret.kind = "Sync"
                    => (reqs[r].uret.kind = "Value" /\ reqs[r].hret.val = reqs[r].uret.val)
               /\ reqs[r].hret.kind = "Raise" => reqs[r].hret = reqs[r].uret

C8_Witness ==
    \E r \in Slots :
        /\ Done(r) /\ reqs[r].method = "start" /\ reqs[r].op_handler.sync
        /\ reqs[r].uret.kind = "Value" /\ reqs[r].uret.val \in Tokens
        /\ reqs[r].hret = StartOperationResultSync(reqs[r].uret.val)

\* the service name an element of user_service_handlers would register under
ElementName(el) == IF el.form = "class" THEN None ELSE el.service.name

DuplicateAt(handlers, j) ==
    /\ ElementName(handlers[j]) # None
    /\ \E i \in 1..(j - 1) : ElementName(handlers[i]) = ElementName(handlers[j])

HasDuplicateNames(handlers) == \E j \in 1..Len(handlers) : DuplicateAt(handlers, j)

DuplicatedNames(handlers) ==
    {ElementName(handlers[j]) : j \in {k \in 1..Len(handlers) : DuplicateAt(handlers, k)}}

FirstDuplicate(handlers) ==
    CHOOSE j \in 1..Len(handlers) :
        DuplicateAt(handlers, j) /\ \A k \in 1..(j - 1) : ~DuplicateAt(handlers, k)

\* the element can be turned into a ServiceHandler
Builds(el) ==
    el.form # "class" /\ (el.form = "ServiceHandler" \/ from_user_instance(el).ok)

\* construction gets as far as the duplicate-name check of the second duplicate
ReachesFirstDuplicate(handlers, has_executor) ==
    /\ \A k \in 1..(FirstDuplicate(handlers) - 1) :
          BaseHandler_init(<<handlers[k]>>, has_executor).ok
    /\ Builds(handlers[FirstDuplicate(handlers)])

C10_EveryOperationHasAHandler ==
    phase = "ready"
        => \A s \in DOMAIN service_handlers :
             DOMAIN service_handlers[s].service.operations
                \subseteq DOMAIN service_handlers[s].operation_handlers

\* the operations of a user instance's definition that name a method
BoundOperations(el) ==
    {n \in DOMAIN el.service.operations : el.service.operations[n].method_name # None}

\* C11 (as stated): in a Handler built from user instances, a request by an
\* operation's public name reaches the handler made by the factory of the operation's
\* method_name, and a request by a method name that differs from the public name
\* fails NOT_FOUND.
C11_MethodNameIsNotFound ==
    [][(phase = "new" /\ phase' = "ready")
         => \A i \in 1..Len(user_service_handlers) :
              LET el == user_service_handlers[i]
                  factories == collect_operation_handler_factories_by_method_name(el)
              IN  el.form = "instance"
                    => \A n \in BoundOperations(el) :
                         LET mn == el.service.operations[n].method_name
                         IN  /\ Route(service_handlers', el.service.name, n)
                                  = Routed(factories[mn])
                             /\ mn # n
                                  => IsNotFound(Route(service_handlers', el.service.name,
                                                      mn).error)]_vars

\* C11 (amended): a request by the public name reaches the handler made by the
\* factory of the operation's method_name; a request by a method name that is not
\* a public name of any operation of the service fails NOT_FOUND.
C11_BoundByMethodNameKeyedByPublicName ==
    [][(phase = "new" /\ phase' = "ready")
         => \A i \in 1..Len(user_service_handlers) :
              LET el == user_service_handlers[i]
                  factories == collect_operation_handler_factories_by_method_name(el)
              IN  el.form = "instance"
                    => \A n \in BoundOperations(el) :
                         LET mn == el.service.operations[n].method_name
                         IN  /\ Route(service_handlers', el.service.name, n)
                                  = Routed(factories[mn])
                             /\ mn \notin DOMAIN el.service.operations
                                  => IsNotFound(Route(service_handlers', el.service.name,
                                                      mn).error)]_vars

C11_Witness ==
    \E r \in Slots :
        /\ "b" \in DOMAIN service_handlers
        /\ Done(r) /\ reqs[r].service = "b" /\ reqs[r].operation = "pub"
        /\ "op" \in DOMAIN service_handlers["b"].operation_handlers
        /\ reqs[r].op_handler = SyncOperationHandlerAsyncDef
        /\ reqs[r].op_handler # service_handlers["b"].operation_handlers["op"]
        /\ reqs[r].invoked = 1
        /\ ~Routes([reqs[r] EXCEPT !.operation = "meth"])

\* C12: once constructed, no request changes service_handlers or any
\* operation_handlers map, no factory is called at request time, and every request
\* that reaches a handler is handed the registered OperationHandler of its
\* (service, operation).
C12_RegistryIsReadOnly ==
    /\ [][phase = "ready"
            => (service_handlers' = service_handlers /\ factory_calls' = factory_calls)]_vars
    /\ [](\A r \in Slots :
            reqs[r].invoked > 0
              => /\ Routes(reqs[r])
                 /\ reqs[r].op_handler =
                      service_handlers[reqs[r].service].operation_handlers[reqs[r].operation])

C12_Witness ==
    \E r \in Slots :
        /\ Done(r) /\ reqs[r].invoked = 1 /\ reqs[r].hret.kind = "Raise"
        /\ factory_calls = 2
        /\ reqs[r].op_handler =
             service_handlers[reqs[r].service].operation_handlers[reqs[r].operation]

-----------------------------------------------------------------------------
(* Claims about cancellation tokens, checked under CancellationSpec and OneTaskSpec *)

\* the token a start request's context carries
TokenOf(r) == task_cancellation[reqs[r].task_cancellation]

\* slot r runs the start of CancellableAsyncOperationHandler on the default token
AwaitsDefaultToken(r) ==
    /\ reqs[r].method = "start"
    /\ reqs[r].invoked > 0
    /\ reqs[r].op_handler = CancellableAsyncOperationHandler
    /\ TokenOf(r).kind = "Uncancellable"

\* C13 as stated: wait_until_cancelled_async() of the default token never completes,
\* so the handler awaiting it stays suspended.
C13_DefaultWaitNeverCompletes ==
    \A r \in Slots : AwaitsDefaultToken(r) => Waiting(reqs[r])

\* C13, amended: wait_until_cancelled_async() of the default token completes at once
\* although the token is never cancelled: the handler awaiting it is never suspended
\* and never times out, it resumes, finds no cancellation details and finishes.
C13_DefaultWaitCompletesAtOnce ==
    /\ [](\A r \in Slots :
            AwaitsDefaultToken(r)
              => /\ ~reqs[r].sleeping
                 /\ reqs[r].waited \in {None, "returned"}
                 /\ ~is_cancelled(TokenOf(r))
                 /\ Done(r) => reqs[r].result = ExpectedCancellationDetails)
    /\ \A r \in Slots : (AwaitsDefaultToken(r) ~> Done(r))

C13_Witness ==
    \E r \in Slots :
        /\ AwaitsDefaultToken(r)
        /\ Done(r)
        /\ reqs[r].waited = "returned"
        /\ reqs[r].result = ExpectedCancellationDetails

\* C14: on the default token is_cancelled() is always False, cancellation_details()
\* always None, and wait_until_cancelled(timeout) returns False for every timeout,
\* None included; a handler that waits on it with a timeout sees False.
C14_DefaultTokenNeverCancelled ==
    \A r \in Slots :
        /\ task_cancellation[r].kind = "Uncancellable"
             => /\ ~is_cancelled(task_cancellation[r])
                /\ cancellation_details(task_cancellation[r]) = None
                /\ \A t \in Timeouts : wait_until_cancelled(task_cancellation[r], t) = {FALSE}
        /\ ( /\ reqs[r].method = "start"
             /\ reqs[r].op_handler = CancellableSyncOperation
             /\ reqs[r].invoked > 0
             /\ TokenOf(r).kind = "Uncancellable" )
             => /\ reqs[r].waited \in {None, "False"}
                /\ Done(r) => reqs[r].result = ExpectedCancellation

C14_Witness ==
    \E r \in Slots :
        /\ reqs[r].method = "start"
        /\ reqs[r].op_handler = CancellableSyncOperation
        /\ TokenOf(r).kind = "Uncancellable"
        /\ Done(r)
        /\ reqs[r].waited = "False"

\* slot r runs a start that waits on a cancellable token
WaitsOnTestToken(r) ==
    /\ reqs[r].method = "start"
    /\ reqs[r].invoked > 0
    /\ WaitsUntilCancelled(reqs[r].op_handler)
    /\ TokenOf(r).kind = "Test"

\* what start_operation returns when the handler returned the details
DetailsResult(op_handler) ==
    IF op_handler.sync THEN StartOperationResultSync(CancellationDetails)
    ELSE StartOperationResultAsync(CancellationDetails)

\* C15 as stated: when cancel() is called while the handler is waiting on the token,
\* start_operation returns the supplied details (Async token, resp. Sync value).
C15_CancelledWaiterReturnsDetails ==
    \A r \in Slots :
        (WaitsOnTestToken(r) /\ cancel_point[r] = "waiting" /\ Done(r))
          => reqs[r].result = DetailsResult(reqs[r].op_handler)

\* C15, amended: the wait eventually ends; if it ended by observing the cancellation
\* the handler reads details equal to the supplied string, never absent ones, and
\* start_operation returns them (Async token, resp. Sync value); if the handler's own
\* one-second timeout expired first, start_operation raises "Expected cancellation".
\* A blocking wait never times out once cancel() has set the event.
C15_WaiterEndsWithDetailsOrTimeout ==
    /\ [](\A r \in Slots :
            (WaitsOnTestToken(r) /\ Done(r))
              => IF WaitSucceeded(reqs[r].waited)
                 THEN /\ reqs[r].details = CancellationDetails
                      /\ reqs[r].result = DetailsResult(reqs[r].op_handler)
                 ELSE reqs[r].result = ExpectedCancellation)
    /\ [][\A r \in Slots :
            ( /\ WaitsOnTestToken(r) /\ Waiting(reqs[r])
              /\ reqs[r].op_handler.sync
              /\ is_cancelled(TokenOf(r))
              /\ reqs'[r].waited # None )
              => reqs'[r].waited = "True"]_vars
    /\ \A r \in Slots : (WaitsOnTestToken(r) ~> Done(r))

C15_Witness ==
    \E r \in Slots :
        /\ WaitsOnTestToken(r)
        /\ cancel_point[r] = "waiting"
        /\ Done(r)
        /\ reqs[r].waited = "True"
        /\ reqs[r].details = CancellationDetails
        /\ reqs[r].result = StartOperationResultSync(CancellationDetails)

\* C18: cancelling the token of an in-flight start never makes start_operation
\* return, fail or abandon the handler: the step that cancels leaves every request
\* where it is, and a start whose handler was invoked completes only with what the
\* handler returned or raised, on the inline and on the executor path.
C18_CancellationNeverInterruptsStart ==
    /\ [][task_cancellation' # task_cancellation => reqs' = reqs]_vars
    /\ [](\A r \in Slots :
            (reqs[r].method = "start" /\ reqs[r].invoked > 0 /\ Done(r))
              => /\ reqs[r].hret # NoOutcome
                 /\ reqs[r].result = Completion(dispatcher, reqs[r], reqs[r].hret))

\* a start on the executor whose handler ignores the token, cancelled while in flight,
\* still returns the handler's result
C18_Witness ==
    \E r \in Slots :
        /\ reqs[r].method = "start" /\ reqs[r].operation = "op"
        /\ reqs[r].where = "executor"
        /\ cancel_point[r] \in {"submitted", "in_handler"}
        /\ is_cancelled(TokenOf(r))
        /\ Returned(reqs[r])
        /\ reqs[r].result = reqs[r].hret

\* C19: a cancel, fetch_info or fetch_result request never changes the cancelled
\* flag or the details of any start request's cancellation token, and its context
\* carries no token.
C19_LaterRequestsLeaveTokenAlone ==
    /\ [][\A r \in Slots :
            (reqs'[r] # reqs[r] /\ reqs'[r].method # "start")
              => task_cancellation' = task_cancellation]_vars
    /\ [](\A r \in Slots :
            reqs[r].method \in {"cancel", "fetch_info", "fetch_result"}
              => reqs[r].task_cancellation = None)

C19_Witness ==
    \E r, q \in Slots :
        /\ reqs[r].method = "start" /\ Done(r)
        /\ reqs[r].result = StartOperationResultAsync(CancellationDetails)
        /\ reqs[q].method = "cancel" /\ Done(q) /\ reqs[q].invoked > 0
        /\ reqs[q].token = reqs[r].result.val
        /\ task_cancellation[q].kind = "Test" /\ ~is_cancelled(task_cancellation[q])
        /\ is_cancelled(TokenOf(r))

-----------------------------------------------------------------------------
(* Claims about interceptors, checked under InterceptorsSpec *)

IsPrefix(a, b) == Len(a) <= Len(b) /\ \A i \in 1..Len(a) : a[i] = b[i]

\* the order in which a call through `interceptors` is observed when the first
\* configured interceptor is outermost
ExpectedOrder(interceptors, method) ==
    [i \in 1..Len(interceptors) |-> Before(interceptors[i])]
      \o <<Base(method)>>
      \o [i \in 1..Len(interceptors) |-> After(interceptors[Len(interceptors) + 1 - i])]

\* the request in slot r went through the wrappers and none of them raised
PassedThrough(r) ==
    /\ Done(r)
    /\ reqs[r].invoked > 0
    /\ ~chain.aborted

\* C16: with interceptors [A, B] every start and every cancel call is observed in
\* the order A.before, B.before, base method, B.after, A.after (the first configured
\* interceptor is outermost); with only A: A.before, base method, A.after. While a
\* call is on its way the observations are a prefix of that order.
C16_FirstConfiguredIsOutermost ==
    \A r \in Slots :
        /\ (reqs[r].pc = "in_handler" /\ ~chain.aborted)
             => IsPrefix(chain.trace, ExpectedOrder(chain.interceptors, reqs[r].method))
        /\ PassedThrough(r)
             => chain.trace = ExpectedOrder(chain.interceptors, reqs[r].method)

C16_Witness ==
    \E r \in Slots :
        /\ PassedThrough(r)
        /\ reqs[r].method = "cancel"
        /\ chain.interceptors = <<AssertingInterceptor, CountingInterceptor>>
        /\ chain.trace = <<Before(AssertingInterceptor), Before(CountingInterceptor),
                           Base("cancel"),
                           After(CountingInterceptor), After(AssertingInterceptor)>>
        /\ chain.calls = 2

Occurrences(seq, e) == Cardinality({i \in 1..Len(seq) : seq[i] = e})

\* how many of the configured interceptors are CountingInterceptor
Counting(interceptors) == Occurrences(interceptors, CountingInterceptor)

\* C17: with pass-through interceptors one start request enters each start wrapper
\* once and the base start once, enters no cancel wrapper, and returns the base
\* handler's outcome unchanged (same Sync/Async variant, same value or token);
\* likewise one cancel request; for async- and sync-completing operations.
C17_PassThroughCallsEachOnce ==
    \A r \in Slots :
        PassedThrough(r)
          => LET now == chain.counters
                 was == chain.before
                 mine == IF reqs[r].method = "start" THEN 1 ELSE 0
             IN  /\ \A i \in 1..Len(chain.interceptors) :
                       Occurrences(chain.trace, Before(chain.interceptors[i])) = 1
                 /\ Occurrences(chain.trace, Base(reqs[r].method)) = 1
                 /\ now.num_start - was.num_start = mine * Counting(chain.interceptors)
                 /\ now.num_cancel - was.num_cancel =
                       (1 - mine) * Counting(chain.interceptors)
                 /\ now.base_start - was.base_start = mine
                 /\ now.base_cancel - was.base_cancel = 1 - mine
                 /\ reqs[r].result = reqs[r].hret

C17_Witness ==
    \E r \in Slots :
        /\ PassedThrough(r)
        /\ reqs[r].method = "start"
        /\ reqs[r].op_handler = SyncOperationHandlerAsyncDef
        /\ chain.interceptors = <<AssertingInterceptor, CountingInterceptor>>
        /\ chain.counters.num_start = 1 /\ chain.counters.num_cancel = 0
        /\ reqs[r].result.kind = "Sync"

-----------------------------------------------------------------------------
(* Claims about the execution path, checked under ConcurrentSpec *)

\* the handler method of the request in slot r has been handed to the executor and
\* has not completed
OnExecutor(r) ==
    /\ reqs[r].pc \in {"submitted", "in_handler"}
    /\ reqs[r].where = "executor"

\* C20: for each of the four methods, Handler runs an `async def` method inline and
\* never on the executor, and a plain `def` method only on the executor; the entry
\* point of a submitted call completes only when the call has completed, and
\* meanwhile another request can be dispatched.
C20_PathChosenPerMethod ==
    /\ [](\A r \in Slots :
            (reqs[r].pc = "submitted" \/ reqs[r].invoked > 0)
              => /\ reqs[r].where =
                      IF is_async_callable(reqs[r].op_handler, reqs[r].method)
                      THEN "inline" ELSE "executor"
                 /\ reqs[r].where = "executor" => executor
                 /\ Done(r) => reqs[r].hret # NoOutcome)
    /\ [][\A r \in Slots :
            reqs[r].pc = "submitted" => reqs'[r].pc \in {"submitted", "in_handler"}]_vars
    /\ [](\A r, q \in Slots :
            (OnExecutor(r) /\ reqs[q].pc = "idle") => ENABLED DispatchConcurrently(q))

\* while a plain `def` start is on the executor, a request dispatched to the other
\* slot runs its `async def` method inline
C20_Witness ==
    \E r, q \in Slots :
        /\ OnExecutor(r) /\ reqs[r].method = "start"
        /\ reqs[r].op_handler = BlockingStartHandler
        /\ reqs[q].method = "cancel" /\ reqs[q].op_handler = BlockingStartHandler
        /\ reqs[q].where = "inline" /\ Done(q) /\ reqs[q].invoked = 1

-----------------------------------------------------------------------------
(* Claims about failures, checked under FailuresSpec *)

IsHandlerError == failure.err.class = "HandlerError"
IsOperationError == failure.err.class = "OperationError"

\* C21: HandlerError.retryable equals retryable_override whenever the override is not
\* None, and otherwise the default of the error type: False for BAD_REQUEST,
\* UNAUTHENTICATED, UNAUTHORIZED, NOT_FOUND, CONFLICT and NOT_IMPLEMENTED, True for the
\* other six; a type string matching no known type is classified as UNKNOWN.
C21_OverrideWinsElseTypeDefault ==
    IsHandlerError =>
        LET given == failure.type
            classified == IF given.name \in HandlerErrorType THEN given.name ELSE "UNKNOWN"
        IN  /\ failure.err.type = classified
            /\ failure.retryable_override = True => retryable(failure.err)
            /\ failure.retryable_override = False => ~retryable(failure.err)
            /\ failure.retryable_override = None =>
                  (retryable(failure.err) <=>
                     classified \notin {"BAD_REQUEST", "UNAUTHENTICATED", "UNAUTHORIZED",
                                        "NOT_FOUND", "CONFLICT", "NOT_IMPLEMENTED"})

C21_Witness ==
    /\ IsHandlerError
    /\ failure.type = TypeArgument(TRUE, "SOME_UNKNOWN_TYPE")
    /\ failure.retryable_override = None
    /\ failure.err.type = "UNKNOWN"
    /\ retryable(failure.err)

ReservedMetadataKeys == {"type"}
ReservedDetailsKeys ==
    IF IsHandlerError THEN {"type", "retryableOverride"} ELSE {"state"}

\* every key the caller supplied that is not reserved is in `made` with the caller's value
UserKeysPreserved(supplied, made, reserved) ==
    \A k \in DOMAIN DictOrEmpty(supplied) \ reserved :
        /\ k \in DOMAIN made.map
        /\ made.map[k] = supplied.map[k]

\* C25: the reserved keys of a failure cannot be overridden by the caller. For a
\* HandlerError metadata['type'] is 'nexus.HandlerError', details['type'] is the raw
\* error type and details['retryableOverride'], whenever present, equals the error's
\* retryable_override; for an OperationError metadata['type'] is 'nexus.OperationError'
\* and details['state'] is the state's value; the caller's other keys are preserved.
C25_ReservedKeysCannotBeOverridden ==
    /\ IsHandlerError =>
          /\ failure.err.metadata.map["type"] = "nexus.HandlerError"
          /\ failure.err.details.map["type"] = failure.err.raw_error_type
          /\ "retryableOverride" \in DOMAIN failure.err.details.map =>
                failure.err.details.map["retryableOverride"] = failure.err.retryable_override
    /\ IsOperationError =>
          /\ failure.err.metadata.map["type"] = "nexus.OperationError"
          /\ failure.err.details.map["state"] = StateValue(failure.err.state)
    /\ (IsHandlerError \/ IsOperationError) =>
          /\ UserKeysPreserved(failure.metadata, failure.err.metadata, ReservedMetadataKeys)
          /\ UserKeysPreserved(failure.details, failure.err.details, ReservedDetailsKeys)

-----------------------------------------------------------------------------
(* Claims about routing errors, checked under SyncioSpec *)

Range(seq) == {seq[i] : i \in DOMAIN seq}

\* the names appear in strictly ascending string order
Ascending(seq) ==
    \A i, j \in DOMAIN seq :
        i < j => \E p, q \in DOMAIN AlphabeticalOrder :
                    /\ p < q
                    /\ AlphabeticalOrder[p] = seq[i]
                    /\ AlphabeticalOrder[q] = seq[j]

\* C22: the NOT_FOUND error for an unknown operation of a known service lists exactly
\* the operation names of that service's definition, sorted, and no names when the
\* service has no operations; the NOT_FOUND error for an unknown service lists none.
C22_NotFoundListsKnownOperations ==
    \A r \in Slots :
        (Done(r) /\ IsNotFound(reqs[r].result) /\ UnknownTarget(reqs[r])) =>
            IF reqs[r].service \notin DOMAIN service_handlers
            THEN reqs[r].result.detail = <<>>
            ELSE LET known == DOMAIN service_handlers[reqs[r].service].service.operations
                 IN  /\ Range(reqs[r].result.detail) = known
                     /\ Ascending(reqs[r].result.detail)
                     /\ known = {} => reqs[r].result.detail = <<>>

C22_Witness ==
    \E r \in Slots :
        /\ Done(r)
        /\ IsNotFound(reqs[r].result)
        /\ reqs[r].service \in DOMAIN service_handlers
        /\ reqs[r].operation = "op"
        /\ reqs[r].result.detail = <<"meth", "pub">>

-----------------------------------------------------------------------------
(* Claims about the service contract, checked under DecorationSpec *)

IsDecorated == decorated # NotDecorated

\* the handler class implements exactly the operations of the contract
SameOperations == DOMAIN decorated.user_methods = DOMAIN decorated.operations

\* a is b or a strict superclass of b
SameOrSuperclass(a, b) == a = b \/ (a = "SuperClass" /\ b = "Subclass")

Unchecked(a, b) == None \in {a, b} \/ AnyType \in {a, b}

-----------------------------------------------------------------------------
(* Claims about the blocking dispatcher, checked under SyncioSpec *)

\* the operation handlers of the service handler an element of user_service_handlers
\* stands for
OperationHandlersOf(el) ==
    IF el.form = "ServiceHandler" THEN el.handlers
    ELSE IF el.form = "instance" /\ from_user_instance(el).ok
    THEN from_user_instance(el).value.operation_handlers
    ELSE EmptyMap

\* some operation handler among the constructor's arguments has an `async def` method
AnyAsyncMethod(handlers) ==
    \E i \in DOMAIN handlers : \E n \in DOMAIN OperationHandlersOf(handlers[i]) :
        \E method \in Methods : is_async_callable(OperationHandlersOf(handlers[i])[n], method)

\* some operation among the constructor's arguments was defined with the syncio
\* sync_operation decorator on a plain `def`
AnySyncioOperation(handlers) ==
    \E i \in DOMAIN handlers : \E n \in DOMAIN OperationHandlersOf(handlers[i]) :
        OperationHandlersOf(handlers[i])[n] = SyncOperationHandlerDef

\* C24: constructing nexusrpc.syncio.handler.Handler with a service handler any of
\* whose operation handlers has an `async def` start, cancel, fetch_info or
\* fetch_result fails at construction, before any request is dispatched; constructing
\* nexusrpc.handler.Handler without an executor from a service handler with an
\* operation defined by the syncio decorator fails at construction too.
C24_MismatchedHandlersFailAtConstruction ==
    [][(/\ phase = "new"
        /\ \/ dispatcher = "syncio.Handler" /\ AnyAsyncMethod(user_service_handlers)
           \/ /\ dispatcher = "Handler"
              /\ ~executor
              /\ AnySyncioOperation(user_service_handlers))
       => (/\ phase' = "failed"
           /\ \A r \in Slots : reqs'[r].pc = "idle" /\ reqs'[r].invoked = 0)]_vars

C24_Witness ==
    /\ phase = "failed"
    /\ dispatcher = "syncio.Handler"
    /\ executor
    /\ user_service_handlers = <<Instance("a", SyncOperationHandlerAsyncDef)>>
    /\ ctor_error.reason = "async_def"

\* C27: on the blocking dispatcher, fetch_operation_info and fetch_operation_result
\* follow the routing and adapter pattern of start_operation and cancel_operation: they
\* fail NOT_FOUND for an unregistered service or operation, and for a registered
\* asynchronously-completing operation they run the handler's fetch_info or
\* fetch_result on the executor and return its result.
C27_BlockingFetchRoutesAndRuns ==
    \A r \in Slots :
        (/\ dispatcher # "Handler"
         /\ Done(r)
         /\ reqs[r].method \in {"fetch_info", "fetch_result"}) =>
            /\ UnknownTarget(reqs[r]) => IsNotFound(reqs[r].result)
            /\ (Routes(reqs[r]) /\ ~RoutedHandler(reqs[r]).sync) =>
                  /\ reqs[r].where = "executor"
                  /\ reqs[r].invoked = 1
                  /\ reqs[r].result = reqs[r].hret

-----------------------------------------------------------------------------
(* Claims about input consumption, checked under Spec *)

\* the execution-mode check of start_operation failed
FailedModeCheck(rq) ==
    /\ rq.result.kind = "Raise"
    /\ rq.result.by = "dispatcher"
    /\ rq.result.val \in {"RuntimeError.no_executor.start", "RuntimeError.async_def.start"}

\* C29: within one start_operation request the steps occur in the order routing, input
\* consumption, execution-mode check, handler invocation: a request that fails routing
\* never consumes the LazyValue, a request that reaches the handler has consumed it
\* exactly once, with the operation's declared input_type, before start is invoked,
\* and no request consumes its LazyValue more than once.
C29_RouteConsumeCheckInvoke ==
    \A r \in Slots :
        reqs[r].pc # "idle" =>
            /\ reqs[r].consumed <= 1
            /\ reqs[r].method # "start" => reqs[r].consumed = 0
            /\ reqs[r].method = "start" =>
                  /\ ~Routes(reqs[r]) => (reqs[r].consumed = 0 /\ reqs[r].invoked = 0)
                  /\ (reqs[r].pc = "submitted" \/ reqs[r].invoked > 0) =>
                        /\ reqs[r].consumed = 1
                        /\ reqs[r].input_ok
                        /\ reqs[r].as_type =
                              service_handlers[reqs[r].service].service
                                  .operations[reqs[r].operation].input_type
                  /\ (Done(r) /\ FailedModeCheck(reqs[r])) =>
                        (reqs[r].consumed = 1 /\ reqs[r].input_ok /\ reqs[r].invoked = 0)

C29_Witness ==
    \E r \in Slots :
        /\ reqs[r].method = "start"
        /\ reqs[r].operation = "pub"
        /\ reqs[r].pc = "in_handler"
        /\ reqs[r].invoked = 1
        /\ reqs[r].consumed = 1
        /\ reqs[r].as_type = "str"

-----------------------------------------------------------------------------
(* Claims about overlapping requests, checked under ConcurrentSpec *)

\* the request gets as far as the test `if is_async_callable(op_handler.m)` and the
\* method is a plain `def`
ReachesBlockingMethod(rq) ==
    /\ Routes(rq)
    /\ ~is_async_callable(RoutedHandler(rq), rq.method)
    /\ rq.method = "start" => rq.input_ok
    /\ rq.method = "fetch_result" => ~rq.wait

\* C26: when a request reaches a plain `def` handler method of a Handler constructed
\* without an executor, the entry point fails with a RuntimeError, the handler method
\* is not invoked, and a later identical request fails the same way: requests change
\* nothing in the Handler.
C26_NoExecutorIsConfigurationError ==
    /\ [](\A r \in Slots :
            (/\ dispatcher = "Handler"
             /\ ~executor
             /\ Done(r)
             /\ ReachesBlockingMethod(reqs[r])) =>
                /\ reqs[r].result =
                      Outcome("Raise", "RuntimeError.no_executor." \o reqs[r].method,
                              "dispatcher")
                /\ reqs[r].invoked = 0
                /\ reqs[r].hret = NoOutcome)
    /\ [][phase = "ready" =>
            /\ phase' = "ready"
            /\ service_handlers' = service_handlers
            /\ executor' = executor]_vars

\* the same request made twice, the second after the first had failed
C26_Witness ==
    /\ ~executor
    /\ \A r \in Slots :
          /\ Done(r)
          /\ reqs[r].method = "fetch_info"
          /\ reqs[r].operation = "op"
          /\ ReachesBlockingMethod(reqs[r])
          /\ reqs[r].result = NoExecutorError("fetch_info")
          /\ reqs[r].invoked = 0

\* a cancel, fetch_info or fetch_result request for token t that the Handler has
\* accepted and not yet answered
InFlightFor(r, t) ==
    /\ reqs[r].pc \in {"submitted", "in_handler"}
    /\ reqs[r].method \in {"cancel", "fetch_info", "fetch_result"}
    /\ reqs[r].token = t

\* C28: overlapping cancel_operation / fetch_operation_info / fetch_operation_result
\* requests for the same token are not serialized by the Handler: while one is in
\* flight another is accepted, and when both are inside handler methods either of
\* them can complete first.
C28_SameTokenRequestsNotSerialized ==
    \A r, q \in Slots : \A t \in Tokens :
        (r # q /\ InFlightFor(r, t)) =>
            /\ reqs[q].pc = "idle" => ENABLED DispatchConcurrently(q)
            /\ (InFlightFor(q, t) /\ reqs[r].pc = "in_handler" /\ reqs[q].pc = "in_handler")
                  => (ENABLED HandlerReturn(r) /\ ENABLED HandlerReturn(q))

C28_Witness ==
    /\ reqs["r1"].pc = "in_handler" /\ reqs["r1"].method = "cancel"
    /\ reqs["r2"].pc = "in_handler" /\ reqs["r2"].method = "fetch_result"
    /\ reqs["r1"].token = "t1" /\ reqs["r2"].token = "t1"
    /\ reqs["r1"].operation = reqs["r2"].operation
    /\ reqs["r1"].invoked = 1 /\ reqs["r2"].invoked = 1

-----------------------------------------------------------------------------
(* Claims about service definitions, checked under DefinitionSpec *)

IsDefined == defined # NotDefined /\ defined.outcome.ok

\* every key of operations is the name of the Operation it maps to
KeyedByName(operations) ==
    \A n \in DOMAIN operations : operations[n].name = n

\* no two operations have the same method_name
DistinctMethodNames(operations) ==
    \A m, n \in DOMAIN operations :
        m # n => operations[m].method_name # operations[n].method_name

\* the names of the operations the parent class and the child class both define
Redefined ==
    {n \in DOMAIN collect_operations(defined.body).operations :
        n \in DOMAIN collect_operations(defined.parent_body).operations}

\* an operation the child class redefines is the child's
ChildDefinitionWins(operations) ==
    \A n \in Redefined :
        /\ n \in DOMAIN operations
        /\ operations[n] = collect_operations(defined.body).operations[n]

\* C30: in every ServiceDefinition produced by @service, definitions that inherit or
\* redeclare operations of a parent class included, each key of operations equals the
\* name of the Operation it maps to, no two operations share a method_name, and an
\* operation redefined in a child class is represented by the child's definition.
C30_OperationsKeyedByNameChildWins ==
    IsDefined =>
        /\ KeyedByName(defined.outcome.operations)
        /\ DistinctMethodNames(defined.outcome.operations)
        /\ ChildDefinitionWins(defined.outcome.operations)


====
